---- MODULE Spec2Model ----
(***************************************************************************)
(* A model of the chunked translation-and-QA pipeline of the WP HTML       *)
(* Translator (Next.js port): the chunker (lib/chunk.ts), the cache key    *)
(* and store (lib/storage.ts), the translator with retry and truncation    *)
(* detection, POST /translate and the client-orchestrated flow.            *)
(*                                                                         *)
(* Strings.  A JavaScript string is modelled as a sequence of tokens, each *)
(* token standing for a run of UTF-16 code units that the code never looks *)
(* inside: "a" one character of text, "L" a run of RunLen characters of    *)
(* text, "H" a run of HugeLen characters of text, "NL" the newline, "SP"   *)
(* a blank, "CT" a closing tag of a block element such as </p>, "FENCE"    *)
(* the three back-ticks, "SENT" the word TRUNCATED; "o" and "n" are the    *)
(* old and the new domain, "b" a translated character, "S" a run of MidLen *)
(* characters and "T" its longer translation, "x" and "q" a                *)
(* character of a reply.  StrLen is .length.                               *)
(***************************************************************************)
EXTENDS Integers, Sequences, FiniteSets, TLC

\* ------------------------------------------------------------ bounds
\* longest HTML input of the chunker check, in tokens
MaxLen == 5
\* characters in one "L" run of text
RunLen == 900
\* characters in one "H" run of text
HugeLen == 15000
\* how far the clock of the key check runs
MaxTick == 1
\* characters in one "S" run of text; its translation "T" is a third longer
MidLen == 9000

\* ------------------------------------------------------------ strings
Max(a, b) == IF a >= b THEN a ELSE b
Min(a, b) == IF a <= b THEN a ELSE b

Width(tok) ==
  CASE tok = "L" -> RunLen
    [] tok = "H" -> HugeLen
    [] tok = "S" -> MidLen
    [] tok = "T" -> MidLen + (MidLen \div 3)
    [] tok = "CT" -> 4
    [] tok = "FENCE" -> 3
    [] tok = "SENT" -> 9
    [] OTHER -> 1

\* String.prototype.length
RECURSIVE StrLen(_)
StrLen(s) == IF s = <<>> THEN 0 ELSE Width(Head(s)) + StrLen(Tail(s))

\* Array.prototype.join("") of a sequence of strings
RECURSIVE Concat(_)
Concat(ss) == IF ss = <<>> THEN <<>> ELSE Head(ss) \o Concat(Tail(ss))

\* all strings over alphabet A of at most n tokens
RECURSIVE StringsUpTo(_, _)
StringsUpTo(A, n) ==
  IF n = 0 THEN {<<>>}
  ELSE LET S == StringsUpTo(A, n - 1)
       IN  S \cup {Append(s, t) : s \in {x \in S : Len(x) = n - 1}, t \in A}

\* Array.prototype.join("\n")
RECURSIVE JoinNL(_)
JoinNL(ss) ==
  IF ss = <<>> THEN <<>>
  ELSE IF Len(ss) = 1 THEN ss[1]
  ELSE ss[1] \o <<"NL">> \o JoinNL(Tail(ss))

\* String.prototype.trim
IsSpace(tok) == tok \in {"NL", "SP"}
RECURSIVE TrimStart(_)
TrimStart(s) == IF s # <<>> /\ IsSpace(Head(s)) THEN TrimStart(Tail(s)) ELSE s
RECURSIVE TrimEnd(_)
TrimEnd(s) ==
  IF s # <<>> /\ IsSpace(s[Len(s)]) THEN TrimEnd(SubSeq(s, 1, Len(s) - 1)) ELSE s
Trim(s) == TrimEnd(TrimStart(s))

\* html.split(old).join(new): every occurrence of old, left to right, replaced
RECURSIVE ReplaceAll(_, _, _)
ReplaceAll(s, old, new) ==
  IF Len(s) < Len(old) THEN s
  ELSE IF SubSeq(s, 1, Len(old)) = old
       THEN new \o ReplaceAll(SubSeq(s, Len(old) + 1, Len(s)), old, new)
       ELSE <<Head(s)>> \o ReplaceAll(Tail(s), old, new)

\* ------------------------------------------------------------ lib/prompt.ts
\* t.lastIndexOf("\n"), counted from 1; 0 when there is none
LastNewline(t) ==
  LET nl == {i \in 1..Len(t) : t[i] = "NL"}
  IN  IF nl = {} THEN 0 ELSE CHOOSE i \in nl : \A j \in nl : j <= i

\* stripFences: t.split("\n", 1) holds one element, so its element [1] is
\* undefined and a text that starts with a fence becomes the empty string
stripFences(text) ==
  LET t0 == Trim(text)
      t1 == IF t0 # <<>> /\ Head(t0) = "FENCE" THEN <<>> ELSE t0
      idx == LastNewline(t1)
      t2 == IF t1 # <<>> /\ t1[Len(t1)] = "FENCE" /\ idx # 0
            THEN SubSeq(t1, 1, idx - 1) ELSE t1
  IN  Trim(t2)

\* ------------------------------------------------------------ lib/chunk.ts
\* html.split(/(\n)/): the text between newlines, with the newlines kept as
\* elements of their own; the empty string gives one empty element
RECURSIVE SplitLines(_)
SplitLines(s) ==
  LET nl == {i \in 1..Len(s) : s[i] = "NL"}
  IN  IF nl = {} THEN <<s>>
      ELSE LET i == CHOOSE k \in nl : \A j \in nl : k <= j
           IN  <<SubSeq(s, 1, i - 1), <<"NL">>>> \o SplitLines(SubSeq(s, i + 1, Len(s)))

\* Math.max(floor, Math.floor(limit * margin)), margin = <<numerator, denominator>>
SafeBudget(floor, limit, margin) == Max(floor, (limit * margin[1]) \div margin[2])

\* the for-loop of splitHtmlByChars over lines[i..], from buffer cur and list chunks
RECURSIVE ByCharsLoop(_, _, _, _, _)
ByCharsLoop(lines, i, cur, chunks, safe) ==
  IF i > Len(lines) THEN <<chunks, cur>>
  ELSE IF StrLen(cur \o lines[i]) > safe
       THEN ByCharsLoop(lines, i + 1, lines[i], Append(chunks, cur), safe)
       ELSE ByCharsLoop(lines, i + 1, cur \o lines[i], chunks, safe)

\* mutant: the final  if (cur) chunks.push(cur)  is forgotten
splitHtmlByChars_NoTail(html, limit, margin) ==
  ByCharsLoop(SplitLines(html), 1, <<>>, <<>>, SafeBudget(1000, limit, margin))[1]

splitHtmlByChars(html, limit, margin) ==
  LET r == ByCharsLoop(SplitLines(html), 1, <<>>, <<>>, SafeBudget(1000, limit, margin))
  IN  IF r[2] # <<>> THEN Append(r[1], r[2]) ELSE r[1]

\* the exec loop of splitHtmlSmart: html cut right after every closing block tag,
\* and the rest after the last one when it is not empty
RECURSIVE BlockParts(_)
BlockParts(s) ==
  LET ct == {i \in 1..Len(s) : s[i] = "CT"}
  IN  IF ct = {} THEN (IF s = <<>> THEN <<>> ELSE <<s>>)
      ELSE LET i == CHOOSE k \in ct : \A j \in ct : k <= j
           IN  <<SubSeq(s, 1, i)>> \o BlockParts(SubSeq(s, i + 1, Len(s)))

\* the packing loop of splitHtmlSmart
RECURSIVE SmartLoop(_, _, _, _, _)
SmartLoop(parts, i, cur, chunks, safe) ==
  IF i > Len(parts) THEN <<chunks, cur>>
  ELSE IF StrLen(cur \o parts[i]) > safe /\ StrLen(cur) > 0
       THEN SmartLoop(parts, i + 1, parts[i], Append(chunks, cur), safe)
       ELSE SmartLoop(parts, i + 1, cur \o parts[i], chunks, safe)

\* mutant: the fallback finds no chunk oversized
Oversized_Never(c, safe) == FALSE

\* c.length > safe * 1.2
Oversized(c, safe) == 5 * StrLen(c) > 6 * safe

\* the fallback loop of splitHtmlSmart
RECURSIVE Normalize(_, _, _, _)
Normalize(chunks, safe, limit, margin) ==
  IF chunks = <<>> THEN <<>>
  ELSE (IF Oversized(Head(chunks), safe)
        THEN splitHtmlByChars(Head(chunks), limit, margin)
        ELSE <<Head(chunks)>>)
       \o Normalize(Tail(chunks), safe, limit, margin)

\* the chunks of splitHtmlSmart before the fallback loop
SmartPacked(html, safe) ==
  LET r == SmartLoop(BlockParts(html), 1, <<>>, <<>>, safe)
  IN  IF r[2] # <<>> THEN Append(r[1], r[2]) ELSE r[1]

splitHtmlSmart(html, limit, margin) ==
  LET safe == SafeBudget(2000, limit, margin)
  IN  IF Len(BlockParts(html)) = 0 THEN splitHtmlByChars(html, limit, margin)
      ELSE Normalize(SmartPacked(html, safe), safe, limit, margin)

\* mutant: the threshold is applied to the source alone
shouldChunkQA_SourceOnly(srcHtml, tgtHtml) == StrLen(srcHtml) > 20000

shouldChunkQA(srcHtml, tgtHtml) == StrLen(srcHtml) + StrLen(tgtHtml) > 20000

\* mutant: the html is left as it came
deterministicDomainSwap_Off(html, oldDomain, newDomain) == html

deterministicDomainSwap(html, oldDomain, newDomain) ==
  IF oldDomain = <<>> \/ newDomain = <<>> \/ oldDomain = newDomain THEN html
  ELSE ReplaceAll(html, oldDomain, newDomain)

\* ------------------------------------------------------------ lib/storage.ts: computeKey
\* In this part a string is the sequence of its UTF-16 code units, and a
\* JavaScript value is a record: undefined, a string or a boolean.
Undef == [t |-> "undef", s |-> <<>>, b |-> FALSE]
Str(s) == [t |-> "str", s |-> s, b |-> FALSE]
Bool(b) == [t |-> "bool", s |-> <<>>, b |-> b]
\* !!v
Truthy(v) == (v.t = "bool" /\ v.b) \/ (v.t = "str" /\ v.s # <<>>)

\* "htmlIn"
K_htmlIn == <<104, 116, 109, 108, 73, 110>>
\* "srcLang"
K_srcLang == <<115, 114, 99, 76, 97, 110, 103>>
\* "tgtLang"
K_tgtLang == <<116, 103, 116, 76, 97, 110, 103>>
\* "oldDom"
K_oldDom == <<111, 108, 100, 68, 111, 109>>
\* "newDom"
K_newDom == <<110, 101, 119, 68, 111, 109>>
\* "curFrom"
K_curFrom == <<99, 117, 114, 70, 114, 111, 109>>
\* "curTo"
K_curTo == <<99, 117, 114, 84, 111>>
\* "curLbl"
K_curLbl == <<99, 117, 114, 76, 98, 108>>
\* "removeConvertBlocks"
K_removeConvertBlocks == <<114, 101, 109, 111, 118, 101, 67, 111, 110, 118, 101, 114, 116, 66, 108, 111, 99, 107, 115>>
\* "runQa"
K_runQa == <<114, 117, 110, 81, 97>>
\* "MODEL_TRANSLATE"
K_MODEL_TRANSLATE == <<77, 79, 68, 69, 76, 95, 84, 82, 65, 78, 83, 76, 65, 84, 69>>
\* "MODEL_QA"
K_MODEL_QA == <<77, 79, 68, 69, 76, 95, 81, 65>>

\* comparison of two strings by code units, as Array.prototype.sort() compares
RECURSIVE StrLess(_, _)
StrLess(a, b) ==
  IF b = <<>> THEN FALSE
  ELSE IF a = <<>> THEN TRUE
  ELSE IF Head(a) # Head(b) THEN Head(a) < Head(b)
  ELSE StrLess(Tail(a), Tail(b))

\* Array.prototype.sort() of a list of distinct strings
RECURSIVE SortKeys(_)
SortKeys(ks) ==
  IF ks = <<>> THEN <<>>
  ELSE LET m == CHOOSE i \in 1..Len(ks) : \A j \in 1..Len(ks) : ~StrLess(ks[j], ks[i])
       IN  <<ks[m]>> \o SortKeys(SubSeq(ks, 1, m - 1) \o SubSeq(ks, m + 1, Len(ks)))

\* Object.keys(payload): the property names in the order they are listed
ObjectKeys(payload) == [i \in 1..Len(payload) |-> payload[i].k]

\* payload[k], undefined when there is no such property
Get(payload, k) ==
  IF \E i \in 1..Len(payload) : payload[i].k = k
  THEN payload[CHOOSE i \in 1..Len(payload) : payload[i].k = k].v
  ELSE Undef

\* the JSON text of a string: quoted, with  "  \  and the newline escaped
RECURSIVE JsonEscape(_)
JsonEscape(s) ==
  IF s = <<>> THEN <<>>
  ELSE (CASE Head(s) = 34 -> <<92, 34>>
          [] Head(s) = 92 -> <<92, 92>>
          [] Head(s) = 10 -> <<92, 110>>
          [] OTHER -> <<Head(s)>>) \o JsonEscape(Tail(s))

JsonQuote(s) == <<34>> \o JsonEscape(s) \o <<34>>

\* the JSON text of a value that is not undefined
JsonValue(v) ==
  IF v.t = "str" THEN JsonQuote(v.s)
  ELSE IF v.b THEN <<116, 114, 117, 101>> ELSE <<102, 97, 108, 115, 101>>

\* the members  "k":value  of the properties named in ks, in the order of ks,
\* those whose value is undefined left out
RECURSIVE JsonMembers(_, _)
JsonMembers(payload, ks) ==
  IF ks = <<>> THEN <<>>
  ELSE LET v == Get(payload, Head(ks))
           rest == JsonMembers(payload, Tail(ks))
       IN  IF v.t = "undef" THEN rest
           ELSE <<JsonQuote(Head(ks)) \o <<58>> \o JsonValue(v)>> \o rest

\* Array.prototype.join(",")
RECURSIVE JoinComma(_)
JoinComma(ms) ==
  IF ms = <<>> THEN <<>>
  ELSE IF Len(ms) = 1 THEN ms[1]
  ELSE ms[1] \o <<44>> \o JoinComma(Tail(ms))

\* JSON.stringify(payload, ks): an array replacer names the properties written
\* and their order
JsonStringify(payload, ks) == <<123>> \o JoinComma(JsonMembers(payload, ks)) \o <<125>>

\* mutant: the property names are not sorted
CanonicalJson_Unsorted(payload) == JsonStringify(payload, ObjectKeys(payload))

\* JSON.stringify(payload, Object.keys(payload).sort())
CanonicalJson(payload) == JsonStringify(payload, SortKeys(ObjectKeys(payload)))

\* a ^ b of two non-negative integers
RECURSIVE BitXor(_, _)
BitXor(a, b) ==
  IF a = 0 THEN b
  ELSE IF b = 0 THEN a
  ELSE (((a % 2) + (b % 2)) % 2) + 2 * BitXor(a \div 2, b \div 2)

\* A 32-bit value is <<high 16 bits, low 16 bits>>.
\* x >= y for two such values
Ge32(x, y) == x[1] > y[1] \/ (x[1] = y[1] /\ x[2] >= y[2])

\* The product x * 0x01000193 of a 32-bit x is a double: an integer below 2^56
\* rounded to 53 significant bits, ties to even.  RoundBits(x) is the number of
\* low bits the rounding clears: x * 16777619 >= 2^(52 + k).
RoundBits(x) ==
  IF Ge32(x, <<32767, 13954>>) THEN 3      \* x >= 2147432066
  ELSE IF Ge32(x, <<16383, 39745>>) THEN 2 \* x >= 1073716033
  ELSE IF Ge32(x, <<8191, 52641>>) THEN 1  \* x >=  536858017
  ELSE 0

\* hash ^= c; hash = (hash >>> 0) * 0x01000193, kept modulo 2^32 as the next
\* ^ and the final >>> 0 read it
HashStep(h, c) ==
  LET x == <<h[1], BitXor(h[2], c)>>
      k == RoundBits(x)
      m == x[2] * 403
      lo == m % 65536
      hi == ((x[1] * 403) + (m \div 65536) + ((x[2] % 256) * 256)) % 65536
      unit == 2 ^ k
      r == lo % unit
      up == k > 0 /\ (2 * r > unit \/ (2 * r = unit /\ ((lo \div unit) % 2) = 1))
      lo2 == lo - r + (IF up THEN unit ELSE 0)
  IN  IF lo2 = 65536 THEN <<(hi + 1) % 65536, 0>> ELSE <<hi, lo2>>

\* the for-loop of computeKey over json[lo..hi], from hash h (the loop is cut in
\* two halves; the test of left makes TLC compute the left half first)
RECURSIVE HashLoop(_, _, _, _)
HashLoop(h, json, lo, hi) ==
  IF lo > hi THEN h
  ELSE IF lo = hi THEN HashStep(h, json[lo])
  ELSE LET mid == (lo + hi) \div 2
           left == HashLoop(h, json, lo, mid)
       IN  IF left[2] >= 0 THEN HashLoop(left, json, mid + 1, hi) ELSE left

\* ('0000000' + (hash >>> 0).toString(16)).slice(-8): eight hexadecimal digits,
\* each digit written as its value 0..15
Hex8(h) ==
  <<h[1] \div 4096, (h[1] \div 256) % 16, (h[1] \div 16) % 16, h[1] % 16,
    h[2] \div 4096, (h[2] \div 256) % 16, (h[2] \div 16) % 16, h[2] % 16>>

\* 0x811c9dc5
FnvOffset == <<33052, 40389>>

computeKey(payload) ==
  LET json == CanonicalJson(payload)
  IN  Hex8(HashLoop(FnvOffset, json, 1, Len(json)))

\* ------------------------------------------------------------ state
VARIABLES
  cHtml,    \* chunker check: the input string
  cLimit,   \* chunker check: the size limit
  cMargin,  \* chunker check: the margin, <<numerator, denominator>>
  cChunks,  \* chunker check: the strings returned
  cpc,      \* chunker check: "start", then the function that was called
  kReqA,    \* key check: a request body and the configured model identifiers
  kReqB,    \* key check: a second request
  kOrdB,    \* key check: the order in which the second payload lists its fields
  kKeyA,    \* key check: the key POST /translate computes for kReqA
  kKeyB,    \* key check: the key computeKey returns for the second payload
  kNow,     \* key check: the clock
  kAtA,     \* key check: the clock when kKeyA was computed
  kAtB,     \* key check: the clock when kKeyB was computed
  memStore, \* lib/storage.ts memStore: key -> stored item
  memIndex, \* lib/storage.ts memIndex: list of [key, score]
  now,      \* the clock (Date)
  pc,       \* POST /translate: where the handler of the current request stands
  pBody,    \* POST /translate: the request body
  pKey,     \* POST /translate: key
  pParts,   \* POST /translate: parts
  pI,       \* POST /translate: i, the index of the batch loop
  pChunks,  \* POST /translate: chunks
  pTasks,   \* POST /translate: the translateChunk calls of the current batch
  pOrder,   \* POST /translate: the tasks of the current batch in completion order
  pFull,    \* POST /translate: full
  pQa,      \* POST /translate: the QA stage: sections, position, attempt, answers
  pResp,    \* POST /translate: the response sent
  pDoc,     \* the document that the requests of this behaviour carry
  nReq,     \* number of requests received
  faults,   \* number of model calls that failed
  hist,     \* what the current request did: calls, saves, failures
  uPc,      \* client flow: where translate() of page.tsx stands
  uLen,     \* client flow: htmlIn.length
  uParts,   \* client flow: localParts
  uOut,     \* client flow: outParts
  uIdx,     \* client flow: idx, the counter the workers share
  uWork,    \* client flow: the workers
  uSent,    \* client flow: the chunk requests sent, in order (history)
  uFull,    \* client flow: full
  uTitle,   \* client flow: title, and how the /api/title request ended
  uKey,     \* client flow: cacheKey
  uReq,     \* client flow: the runQa and useCache the user has set
  uDry,     \* client flow: what the dry run answered
  uRuns,    \* client flow: how many times translate() has been started
  tFn,      \* translator: the function under check
  tLen,     \* translator: the length of the text to translate
  tWork,    \* translator: the pieces not yet translated, left to right
  tOuts,    \* translator: the translations of the pieces done, left to right
  tSplits,  \* translator: how many pieces were split in two
  tRes,     \* translator: the result
  tAsked,   \* translator: the pieces sent to the model and whether the reply was the sentinel (history)
  pVer,     \* POST /translate: which of the two handlers runs, "plain" or "titled"
  pTitle,   \* POST /translate: the suggestTitle call of the titled handler
  aPc,      \* small routes: "idle", "model" while a model call runs, "done"
  aReq,     \* small routes: the request being handled
  aResp,    \* small routes: the response
  aAttempt, \* small routes: attempt, the counter of callWithRetry
  aLog,     \* small routes: what the handler did (history)
  aN,       \* small routes: how many requests were received
  rH,       \* two requests at once: the state of each handler
  rBody,    \* two requests at once: the body both requests carry
  rLast,    \* two requests at once: the item of the latest save (history)
  bMem,     \* two backends: memStore and memIndex of the in-memory fallback
  bKv,      \* two backends: the hashes tr:<key> and the sorted set tr_index
  bSeen,    \* two backends: the last call, its argument and what each backend returned
  bN,       \* two backends: how many calls were made
  wHtml,    \* domain swap: html
  wOld,     \* domain swap: oldDomain
  wNew,     \* domain swap: newDomain
  wOut,     \* domain swap: the string returned
  wpc,      \* domain swap: "ready" before the call, "swapped" after it
  sIn,      \* client QA: htmlIn.length
  sFull,    \* client QA: full.length
  sIdxs,    \* client QA: idxs
  sSent,    \* client QA: the /api/qa requests sent (history)
  spc,      \* client QA: "ready", "sections" or "whole" while requests go out, "done"
  mArgs,    \* prompt: the eight arguments of buildSystemPrompt
  mOut,     \* prompt: the strings returned, one per call
  mpc,      \* prompt: "ready" before the first call, "built" after a call
  iKv,      \* save and remove at once: the hashes tr:<key> and the sorted set tr_index
  iItem,    \* save and remove at once: the item save was called with
  iKey,     \* save and remove at once: the key removeByKey was called with
  iSave,    \* save and remove at once: the KV call save makes next, or "done"
  iRem      \* save and remove at once: the KV call removeByKey makes next, or "done"

varsChunk == <<cHtml, cLimit, cMargin, cChunks, cpc>>
varsKey == <<kReqA, kReqB, kOrdB, kKeyA, kKeyB, kNow, kAtA, kAtB>>
varsStore == <<memStore, memIndex, now>>
varsPost == <<pc, pBody, pKey, pParts, pI, pChunks, pTasks, pOrder, pFull, pQa, pResp,
              pDoc, nReq, faults, hist, pVer, pTitle>>
varsClient == <<uPc, uLen, uParts, uOut, uIdx, uWork, uFull, uTitle, uKey, uSent, uReq, uDry, uRuns>>
varsTrans == <<tFn, tLen, tWork, tOuts, tSplits, tRes, tAsked>>
varsApi == <<aPc, aReq, aResp, aAttempt, aLog, aN>>
varsRace == <<rH, rBody, rLast>>
varsBack == <<bMem, bKv, bSeen, bN>>
varsSwap == <<wHtml, wOld, wNew, wOut, wpc>>
varsSample == <<sIn, sFull, sIdxs, sSent, spc>>
varsPrompt == <<mArgs, mOut, mpc>>
varsInter == <<iKv, iItem, iKey, iSave, iRem>>
vars == <<varsChunk, varsKey, varsStore, varsPost, varsClient, varsTrans, varsApi, varsRace, varsBack, varsSwap, varsSample, varsPrompt, varsInter>>

\* ------------------------------------------------------------ parts at rest
\* Each check runs one part of the program; the variables of the others stay
\* at these values.
IdleChunk ==
  /\ cHtml = <<>> /\ cLimit = 0 /\ cMargin = <<1, 2>> /\ cChunks = <<>> /\ cpc = "off"

NoKey == <<>>

IdleKey ==
  /\ kReqA = <<>> /\ kReqB = <<>> /\ kOrdB = "listed" /\ kKeyA = NoKey /\ kKeyB = NoKey
  /\ kNow = 0 /\ kAtA = 0 /\ kAtB = 0

NoBody ==
  [htmlIn |-> <<>>, srcLang |-> <<>>, tgtLang |-> <<>>, oldDom |-> <<>>, newDom |-> <<>>,
   runQa |-> FALSE, useCache |-> FALSE]
NoResp == [status |-> 0, htmlOut |-> <<>>, qaReport |-> <<>>, key |-> NoKey, error |-> ""]
NoQa ==
  [secs |-> <<>>, pos |-> 0, attempt |-> 0, calls |-> 0, fails |-> 0, issues |-> <<>>,
   sampled |-> FALSE, st |-> "none", why |-> ""]
NoHist ==
  [called |-> FALSE, looked |-> FALSE, answers |-> 0, qaCalls |-> 0, qaDone |-> FALSE, saves |-> 0, hit |-> FALSE,
   failed |-> FALSE, lateBatch |-> FALSE, earlyBatch |-> FALSE, outOfOrder |-> FALSE,
   lateCall |-> FALSE,
   savedWith |-> [chunks |-> 0, qa |-> FALSE],
   storeBefore |-> <<>>, indexBefore |-> <<>>]

\* the store as the process starts: empty
EmptyStore == /\ memStore = <<>> /\ memIndex = <<>> /\ now = 0

NoTitle == [st |-> "none", attempt |-> 0, calls |-> 0, fails |-> 0, out |-> <<>>]
IdlePost ==
  /\ pc = "off" /\ pBody = NoBody /\ pKey = NoKey /\ pParts = <<>> /\ pI = 0
  /\ pChunks = <<>> /\ pTasks = <<>> /\ pOrder = <<>> /\ pFull = <<>> /\ pQa = NoQa
  /\ pResp = NoResp /\ pDoc = <<>> /\ nReq = 0 /\ faults = 0 /\ hist = NoHist
  /\ pVer = "off" /\ pTitle = NoTitle

NoClientTitle == [st |-> "none", out |-> <<>>]
NoFlags == [runQa |-> FALSE, useCache |-> FALSE]
NoDry == [status |-> 0, hit |-> FALSE, htmlOut |-> <<>>, qaReport |-> <<>>, key |-> <<>>]
IdleClient ==
  /\ uPc = "off" /\ uLen = 0 /\ uParts = <<>> /\ uOut = <<>> /\ uIdx = 0
  /\ uWork = <<>> /\ uFull = <<>> /\ uTitle = NoClientTitle /\ uKey = <<>> /\ uSent = <<>>
  /\ uReq = NoFlags /\ uDry = NoDry /\ uRuns = 0

NoResult == [status |-> "none", out |-> <<>>]
IdleTrans ==
  /\ tFn = "off" /\ tLen = 0 /\ tWork = <<>> /\ tOuts = <<>> /\ tSplits = 0
  /\ tRes = NoResult /\ tAsked = <<>>

NoReq ==
  [route |-> "", key |-> <<>>, text |-> <<>>, tgt |-> <<>>, srcLang |-> <<>>,
   tgtLang |-> <<>>, title |-> <<>>, htmlOut |-> <<>>, createdAt |-> 0,
   oldDom |-> <<>>, newDom |-> <<>>, runQa |-> FALSE, qaReport |-> <<>>]
NoApiResp ==
  [status |-> 0, out |-> <<>>, qaReport |-> <<>>, items |-> <<>>, error |-> ""]
NoLog == [calls |-> 0, reads |-> 0, writes |-> 0, store |-> <<>>, index |-> <<>>]
IdleApi ==
  /\ aPc = "off" /\ aReq = NoReq /\ aResp = NoApiResp /\ aAttempt = 0
  /\ aLog = NoLog /\ aN = 0

\* what memGet answers for a key that is not stored
NoItem == [key |-> NoKey]
NoSave == [by |-> 0, at |-> 0]
IdleRace == /\ rH = <<>> /\ rBody = NoBody /\ rLast = NoSave
NoStore == [store |-> <<>>, index |-> <<>>]
NoKv == [hashes |-> {}, zset |-> {}]
NoSeen == [op |-> "none", arg |-> <<>>, mem |-> <<>>, kv |-> <<>>]
IdleBack == /\ bMem = NoStore /\ bKv = NoKv /\ bSeen = NoSeen /\ bN = 0
IdleSwap == /\ wHtml = <<>> /\ wOld = <<>> /\ wNew = <<>> /\ wOut = <<>> /\ wpc = "off"
IdleInter == /\ iKv = NoKv /\ iItem = NoItem /\ iKey = NoKey /\ iSave = "off" /\ iRem = "off"
IdlePrompt == /\ mArgs = <<>> /\ mOut = <<>> /\ mpc = "off"
IdleSample == /\ sIn = 0 /\ sFull = 0 /\ sIdxs = <<>> /\ sSent = <<>> /\ spc = "off"

\* ------------------------------------------------------------ the chunker check
HtmlInputs == StringsUpTo({"a", "L", "NL", "CT"}, MaxLen)
Limits == {0, 3000, 5000, 32000}
Margins == {<<1, 2>>, <<1, 4>>}

InitChunk ==
  /\ IdleKey /\ EmptyStore /\ IdlePost /\ IdleClient /\ IdleTrans /\ IdleApi /\ IdleRace /\ IdleBack /\ IdleSwap /\ IdleSample /\ IdlePrompt /\ IdleInter
  /\ cHtml \in HtmlInputs
  /\ cLimit \in Limits
  /\ cMargin \in Margins
  /\ cChunks = <<>>
  /\ cpc = "start"

CallSplitByChars ==
  /\ cpc = "start"
  /\ cChunks' = splitHtmlByChars(cHtml, cLimit, cMargin)
  /\ cpc' = "byChars"
  /\ UNCHANGED <<cHtml, cLimit, cMargin, varsKey, varsStore, varsPost, varsClient, varsTrans, varsApi, varsRace, varsBack, varsSwap, varsSample, varsPrompt, varsInter>>

CallSplitSmart ==
  /\ cpc = "start"
  /\ cChunks' = splitHtmlSmart(cHtml, cLimit, cMargin)
  /\ cpc' = "smart"
  /\ UNCHANGED <<cHtml, cLimit, cMargin, varsKey, varsStore, varsPost, varsClient, varsTrans, varsApi, varsRace, varsBack, varsSwap, varsSample, varsPrompt, varsInter>>

NextChunk == CallSplitByChars \/ CallSplitSmart

SpecChunk == InitChunk /\ [][NextChunk]_vars

\* ------------------------------------------------------------ the key check
\* mutant: the payload leaves the model identifiers out
KeyPayload_NoModels(req) ==
  << [k |-> K_htmlIn, v |-> req.htmlIn],
     [k |-> K_srcLang, v |-> req.srcLang],
     [k |-> K_tgtLang, v |-> req.tgtLang],
     [k |-> K_oldDom, v |-> req.oldDom],
     [k |-> K_newDom, v |-> req.newDom],
     [k |-> K_curFrom, v |-> req.curFrom],
     [k |-> K_curTo, v |-> req.curTo],
     [k |-> K_curLbl, v |-> req.curLbl],
     [k |-> K_removeConvertBlocks, v |-> Bool(Truthy(req.removeConvertBlocks))],
     [k |-> K_runQa, v |-> Bool(Truthy(req.runQa))] >>

\* the payload POST /translate hands to computeKey: the ten request fields, the
\* two flags coerced with !!, and the two configured model identifiers
KeyPayload(req) ==
  << [k |-> K_htmlIn, v |-> req.htmlIn],
     [k |-> K_srcLang, v |-> req.srcLang],
     [k |-> K_tgtLang, v |-> req.tgtLang],
     [k |-> K_oldDom, v |-> req.oldDom],
     [k |-> K_newDom, v |-> req.newDom],
     [k |-> K_curFrom, v |-> req.curFrom],
     [k |-> K_curTo, v |-> req.curTo],
     [k |-> K_curLbl, v |-> req.curLbl],
     [k |-> K_removeConvertBlocks, v |-> Bool(Truthy(req.removeConvertBlocks))],
     [k |-> K_runQa, v |-> Bool(Truthy(req.runQa))],
     [k |-> K_MODEL_TRANSLATE, v |-> req.MODEL_TRANSLATE],
     [k |-> K_MODEL_QA, v |-> req.MODEL_QA] >>

\* the same properties listed in another order
Reorder(payload, ord) ==
  LET n == Len(payload)
  IN  CASE ord = "reversed" -> [i \in 1..n |-> payload[n + 1 - i]]
        [] ord = "rotated" -> [i \in 1..n |-> payload[(i % n) + 1]]
        [] OTHER -> payload

SemanticFields ==
  {"htmlIn", "srcLang", "tgtLang", "oldDom", "newDom", "curFrom", "curTo", "curLbl",
   "removeConvertBlocks", "runQa", "MODEL_TRANSLATE", "MODEL_QA"}
Flags == {"removeConvertBlocks", "runQa", "useCache", "dryRun"}

\* what a field means to the translation: a flag its truth value, any other its value
Meaning(req, f) == IF f \in Flags THEN Bool(Truthy(req[f])) ELSE req[f]

\* the semantic fields on which two requests differ
DifferOn(a, b) == {f \in SemanticFields : Meaning(a, f) # Meaning(b, f)}

\* "gpt-4o-mini" and "gpt-4o", the defaults of MODEL_TRANSLATE and MODEL_QA
DefaultModelTranslate == <<103, 112, 116, 45, 52, 111, 45, 109, 105, 110, 105>>
DefaultModelQa == <<103, 112, 116, 45, 52, 111>>

\* two requests: every field a string; and the optional fields and flags absent
BaseRequests ==
  { [htmlIn |-> Str(<<97>>), srcLang |-> Str(<<114>>), tgtLang |-> Str(<<108, 105, 98>>),
     oldDom |-> Str(<<>>), newDom |-> Str(<<>>), curFrom |-> Str(<<>>),
     curTo |-> Str(<<>>), curLbl |-> Str(<<>>),
     removeConvertBlocks |-> Bool(FALSE), runQa |-> Bool(FALSE),
     useCache |-> Bool(TRUE), dryRun |-> Bool(FALSE),
     MODEL_TRANSLATE |-> Str(DefaultModelTranslate), MODEL_QA |-> Str(DefaultModelQa)],
    [htmlIn |-> Str(<<60, 34, 10>>), srcLang |-> Str(<<114>>), tgtLang |-> Str(<<101>>),
     oldDom |-> Undef, newDom |-> Undef, curFrom |-> Undef, curTo |-> Undef,
     curLbl |-> Undef, removeConvertBlocks |-> Undef, runQa |-> Bool(TRUE),
     useCache |-> Undef, dryRun |-> Undef,
     MODEL_TRANSLATE |-> Str(DefaultModelTranslate), MODEL_QA |-> Str(DefaultModelQa)] }

\* another value for field f of req: for tgtLang "lib" the language "giki", for a
\* flag the opposite truth value, for an absent field the empty string, for any
\* other string the string with an x appended
Other(req, f) ==
  IF f \in Flags THEN Bool(~Truthy(req[f]))
  ELSE IF req[f].t = "undef" THEN Str(<<>>)
  ELSE IF f = "tgtLang" /\ req[f].s = <<108, 105, 98>> THEN Str(<<103, 105, 107, 105>>)
  ELSE Str(req[f].s \o <<120>>)

\* the same flag written another way: absent for false, a non-empty string for true
SameFlag(req, f) == IF Truthy(req[f]) THEN Str(<<49>>) ELSE Undef

Variants(req) ==
  {req}
    \cup {[req EXCEPT ![f] = Other(req, f)] : f \in SemanticFields \cup Flags}
    \cup {[req EXCEPT ![f] = SameFlag(req, f)] : f \in {"removeConvertBlocks", "runQa"}}

Orders == {"listed", "reversed", "rotated"}
InitKey ==
  /\ IdleChunk /\ EmptyStore /\ IdlePost /\ IdleClient /\ IdleTrans /\ IdleApi /\ IdleRace /\ IdleBack /\ IdleSwap /\ IdleSample /\ IdlePrompt /\ IdleInter
  /\ kReqA \in BaseRequests
  /\ kReqB \in Variants(kReqA)
  /\ kOrdB \in Orders
  /\ kKeyA = NoKey /\ kKeyB = NoKey
  /\ kNow = 0 /\ kAtA = 0 /\ kAtB = 0

\* POST /translate, line 77: the key of the request
PostComputeKey ==
  /\ kKeyA = NoKey
  /\ kKeyA' = computeKey(KeyPayload(kReqA))
  /\ kAtA' = kNow
  /\ UNCHANGED <<kReqA, kReqB, kOrdB, kKeyB, kNow, kAtB, varsChunk, varsStore, varsPost, varsClient, varsTrans, varsApi, varsRace, varsBack, varsSwap, varsSample, varsPrompt, varsInter>>

\* computeKey on the payload of the second request, listed in the order kOrdB
CallComputeKey ==
  /\ kKeyA # NoKey /\ kKeyB = NoKey
  /\ kKeyB' = computeKey(Reorder(KeyPayload(kReqB), kOrdB))
  /\ kAtB' = kNow
  /\ UNCHANGED <<kReqA, kReqB, kOrdB, kKeyA, kNow, kAtA, varsChunk, varsStore, varsPost, varsClient, varsTrans, varsApi, varsRace, varsBack, varsSwap, varsSample, varsPrompt, varsInter>>

\* time passes
KeyTick ==
  /\ kNow < MaxTick
  /\ kKeyA # NoKey /\ kKeyB = NoKey
  /\ kNow' = kNow + 1
  /\ UNCHANGED <<kReqA, kReqB, kOrdB, kKeyA, kKeyB, kAtA, kAtB, varsChunk, varsStore, varsPost, varsClient, varsTrans, varsApi, varsRace, varsBack, varsSwap, varsSample, varsPrompt, varsInter>>

NextKey == PostComputeKey \/ CallComputeKey \/ KeyTick

SpecKey == InitKey /\ [][NextKey]_vars

\* ------------------------------------------------------------ POST /translate
\* app/api/translate/route.ts
TOKEN_LIMIT == 32000
SAFETY_MARGIN == <<1, 2>>
\* the margin of the coarser chunking of the sampled QA
QaMargin == <<1, 4>>
\* const concurrency = 3
Concurrency == 3
\* callWithRetry: if (attempt >= 5) throw e
RetryLimit == 5
\* the status of the catch block and of the validation
ErrorStatus == 500
BadRequest == 400
\* block elements of the large document
MaxParts == 4
\* requests in one behaviour
MaxRequests == 2
\* failing model calls in one behaviour
MaxFaults == 7

Run(tok, n) == [i \in 1..n |-> tok]

\* a block element: the old domain "o", a long text, i more characters and the
\* closing tag; no two blocks of a document are equal
Block(i) == <<"o", "H">> \o Run("a", i) \o <<"CT">>
DocOf(n) == Concat([i \in 1..n |-> Block(i)])
SmallDoc == <<"o", "a", "CT">>
\* one block that fits the coarse QA budget, with a translation that does not
MidDoc == <<"o", "S", "CT">>
Docs == {SmallDoc, MidDoc, DocOf(MaxParts)}

\* the bodies sent for a document: htmlIn the document or the empty string, every
\* flag either way
PostBodies(doc) ==
  { [htmlIn |-> h, srcLang |-> <<114>>, tgtLang |-> <<101>>, oldDom |-> <<"o">>,
     newDom |-> <<"n">>, runQa |-> q, useCache |-> u] :
      h \in {doc, <<>>}, q \in BOOLEAN, u \in BOOLEAN }

\* bodies for a document that lack one of the two languages
LackingBodies(doc) ==
  { [htmlIn |-> doc, srcLang |-> s, tgtLang |-> t, oldDom |-> <<"o">>,
     newDom |-> <<"n">>, runQa |-> FALSE, useCache |-> TRUE] :
      s \in {<<>>, <<114>>}, t \in {<<>>, <<101>>} } \ PostBodies(doc)

\* the bodies sent to the handler that knows dryRun
TitledBodies(doc) ==
  { [htmlIn |-> h, srcLang |-> <<114>>, tgtLang |-> <<101>>, oldDom |-> <<"o">>,
     newDom |-> <<"n">>, runQa |-> q, useCache |-> u, dryRun |-> d] :
      h \in {doc, <<>>}, q \in BOOLEAN, u \in BOOLEAN, d \in BOOLEAN }

\* the UTF-16 code units of a string of tokens as computeKey reads them; a run of
\* text is read as one code unit
TokCode(tok) ==
  CASE tok = "a" -> 97 [] tok = "o" -> 111 [] tok = "n" -> 110 [] tok = "H" -> 72
    [] tok = "L" -> 76 [] tok = "S" -> 83 [] tok = "CT" -> 62 [] tok = "NL" -> 10 [] OTHER -> 32
TokCodes(s) == [i \in 1..Len(s) |-> TokCode(s[i])]

\* the fields of the body that line 77 passes to computeKey, and the two models
RequestOf(body) ==
  [htmlIn |-> Str(TokCodes(body.htmlIn)), srcLang |-> Str(body.srcLang),
   tgtLang |-> Str(body.tgtLang), oldDom |-> Str(TokCodes(body.oldDom)),
   newDom |-> Str(TokCodes(body.newDom)), curFrom |-> Undef, curTo |-> Undef,
   curLbl |-> Undef, removeConvertBlocks |-> Undef, runQa |-> Bool(body.runQa),
   useCache |-> Bool(body.useCache), dryRun |-> Undef,
   MODEL_TRANSLATE |-> Str(DefaultModelTranslate), MODEL_QA |-> Str(DefaultModelQa)]

\* line 77, computed once for every body that is sent
KeyTable ==
  [body \in UNION {PostBodies(doc) : doc \in Docs} |->
     computeKey(KeyPayload(RequestOf(body)))]
\* useCache and dryRun are not among the fields line 77 passes
KeyOf(body) == KeyTable[[f \in DOMAIN body \ {"dryRun"} |-> body[f]]]

\* line 74: !htmlIn || !srcLang || !tgtLang
MissingParams(body) == body.htmlIn = <<>> \/ body.srcLang = <<>> \/ body.tgtLang = <<>>

\* line 87
preProcessed(body) == deterministicDomainSwap(body.htmlIn, body.oldDom, body.newDom)

\* what the translation model answers for a chunk when it translates it: the
\* markup kept, every character of text "a" rendered as "b", the run "S" as the
\* longer run "T"
Translated(chunk) ==
  [i \in 1..Len(chunk) |->
     IF chunk[i] = "a" THEN "b" ELSE IF chunk[i] = "S" THEN "T" ELSE chunk[i]]

\* the reply 'No issues found.' and the replies of the QA model
NoIssues == <<"NOISSUES">>
QaReplies == {NoIssues, <<"q", "NL">>}

\* ---- lib/storage.ts, the in-memory fallback.  memStore is the Map as the
\* list of its values in insertion order, memIndex the array of {key, score}.

KeysOf(store) == {store[i].key : i \in 1..Len(store)}

\* mutant: the lookup never finds the item
memGet_Miss(store, key) == NoItem

\* memGet: memStore.get(key), null when absent
memGet(store, key) ==
  IF key \in KeysOf(store)
  THEN store[CHOOSE i \in 1..Len(store) : store[i].key = key]
  ELSE NoItem

\* mutant: every set adds an entry
MapSet_Append(store, item) == Append(store, item)

\* Map.prototype.set: the value replaced in place, or appended
MapSet(store, item) ==
  IF item.key \in KeysOf(store)
  THEN [i \in 1..Len(store) |-> IF store[i].key = item.key THEN item ELSE store[i]]
  ELSE Append(store, item)

\* the array without its first entry for key (findIndex and splice)
IndexWithout(index, key) ==
  LET at == {i \in 1..Len(index) : index[i].key = key}
  IN  IF at = {} THEN index
      ELSE LET i == CHOOSE k \in at : \A j \in at : k <= j
           IN  SubSeq(index, 1, i - 1) \o SubSeq(index, i + 1, Len(index))

\* mutant: the entry is pushed without the splice of the old one
memSave_Push(store, index, item) ==
  [store |-> MapSet(store, item),
   index |-> Append(index, [key |-> item.key, score |-> item.createdAt])]

\* memSave; Date.parse(item.createdAt) is the clock value that toISOString wrote
memSave(store, index, item) ==
  [store |-> MapSet(store, item),
   index |-> Append(IndexWithout(index, item.key), [key |-> item.key, score |-> item.createdAt])]

\* ---- the handler.  S is the state of the handler and of the store it
\* works on; the operators below return the state after a stretch of code.
S ==
  [pc |-> pc, body |-> pBody, key |-> pKey, parts |-> pParts, i |-> pI,
   chunks |-> pChunks, tasks |-> pTasks, order |-> pOrder, full |-> pFull, qa |-> pQa,
   resp |-> pResp, hist |-> hist, store |-> memStore, index |-> memIndex,
   title |-> pTitle]

Becomes(s) ==
  /\ pc' = s.pc /\ pBody' = s.body /\ pKey' = s.key /\ pParts' = s.parts /\ pI' = s.i
  /\ pChunks' = s.chunks /\ pTasks' = s.tasks /\ pOrder' = s.order /\ pFull' = s.full
  /\ pQa' = s.qa /\ pResp' = s.resp /\ hist' = s.hist /\ memStore' = s.store
  /\ memIndex' = s.index /\ pTitle' = s.title

\* a translateChunk call as Promise.all holds it: its callWithRetry has made one
\* call of the model and caught no failure
NewTask == [st |-> "flight", attempt |-> 0, calls |-> 1, fails |-> 0, out |-> <<>>, why |-> ""]

\* NextResponse.json(...): the handler has answered
Respond(s, resp) == [s EXCEPT !.pc = "done", !.resp = resp, !.hist.answers = @ + 1]

\* the catch block, lines 135-137
Fails(s, message) == Respond(s, [NoResp EXCEPT !.status = ErrorStatus, !.error = message])

\* lines 93-95: the slice of parts from i, every translateChunk of it started
StartBatch(s, i, chunks) ==
  [s EXCEPT !.pc = "batch", !.i = i, !.chunks = chunks,
            !.tasks = [j \in 1..Min(Concurrency, Len(s.parts) - i) |-> NewTask],
            !.order = <<>>,
            !.hist.called = TRUE,
            !.hist.lateBatch = @ \/ s.hist.failed,
            !.hist.earlyBatch = @ \/ \E j \in 1..Len(s.tasks) : s.tasks[j].st = "flight"]

\* lines 117-134: save and the answer
SaveAndRespond(s, report, clock) ==
  LET plain == [key |-> s.key, srcLang |-> s.body.srcLang, tgtLang |-> s.body.tgtLang,
                oldDom |-> s.body.oldDom, newDom |-> s.body.newDom,
                runQa |-> s.body.runQa, htmlIn |-> s.body.htmlIn, htmlOut |-> s.full,
                qaReport |-> report, createdAt |-> clock]
      item == IF pVer = "titled" THEN [title |-> s.title.out] @@ plain ELSE plain
      saved == memSave(s.store, s.index, item)
      s1 == [s EXCEPT !.store = saved.store, !.index = saved.index,
                      !.hist.saves = @ + 1,
                      !.hist.savedWith = [chunks |-> Len(s.chunks), qa |-> s.hist.qaDone]]
  IN  Respond(s1, [NoResp EXCEPT !.status = 200, !.htmlOut = s.full,
                                 !.qaReport = report, !.key = s.key])

\* arr[idx] || '' for an index counted from 0
At(arr, idx) == IF idx + 1 <= Len(arr) THEN arr[idx + 1] ELSE <<>>

\* lines 102-104: the sections of the sampled QA
SampledSections(pre, full) ==
  LET qParts == splitHtmlSmart(pre, TOKEN_LIMIT, QaMargin)
      oParts == splitHtmlSmart(full, TOKEN_LIMIT, QaMargin)
      idxs == IF Len(qParts) >= 3
              THEN <<0, Len(qParts) \div 2, Len(qParts) - 1>> ELSE <<0>>
  IN  [k \in 1..Len(idxs) |->
         [src |-> At(qParts, idxs[k]), tgt |-> At(oParts, idxs[k]), idx |-> idxs[k]]]

\* mutant: the QA stage is skipped
NeedsQa_Never(body) == FALSE

\* line 99: if (runQa)
NeedsQa(body) == body.runQa

\* a qaPass call: its callWithRetry has made one call of the model
QaCall(qa, pos) ==
  [qa EXCEPT !.pos = pos, !.attempt = 0, !.calls = 1, !.fails = 0, !.st = "flight"]

\* lines 99-101 and 113: the first qaPass when QA is asked for, else the save
StartQa(s, clock) ==
  LET pre == preProcessed(s.body)
      sampled == shouldChunkQA(pre, s.full)
      secs == IF sampled THEN SampledSections(pre, s.full)
              ELSE <<[src |-> pre, tgt |-> s.full, idx |-> 0]>>
  IN  IF NeedsQa(s.body)
      THEN [s EXCEPT !.pc = "qa",
                     !.qa = QaCall([NoQa EXCEPT !.secs = secs, !.sampled = sampled], 1),
                     !.hist.qaCalls = @ + 1]
      ELSE SaveAndRespond(s, <<>>, clock)

\* line 98: full; the titled handler then calls suggestTitle, whose
\* callWithRetry has made one call of the model
Assemble(s, chunks, clock) ==
  LET full == stripFences(JoinNL(chunks))
      s1 == [s EXCEPT !.chunks = chunks, !.full = full, !.tasks = <<>>, !.order = <<>>]
  IN  IF pVer = "titled"
      THEN [s1 EXCEPT !.pc = "title", !.title = [NoTitle EXCEPT !.st = "flight", !.calls = 1]]
      ELSE StartQa(s1, clock)

\* mutant: Promise.any, fulfilled as soon as one promise is
BatchOutcome_Any(tasks) ==
  IF \E j \in 1..Len(tasks) : tasks[j].st = "ok" THEN "fulfilled"
  ELSE IF \E j \in 1..Len(tasks) : tasks[j].st = "flight" THEN "pending"
  ELSE "rejected"

\* mutant: Promise.allSettled, a rejected translation read as the empty string
BatchOutcome_AllSettled(tasks) ==
  IF \E j \in 1..Len(tasks) : tasks[j].st = "flight" THEN "pending" ELSE "fulfilled"

\* mutant: a rejection is never seen, the batch waits for ever
BatchOutcome_Waits(tasks) ==
  IF \A j \in 1..Len(tasks) : tasks[j].st = "ok" THEN "fulfilled" ELSE "pending"

\* Promise.all: rejected as soon as one promise is, fulfilled when all are
BatchOutcome(tasks) ==
  IF \E j \in 1..Len(tasks) : tasks[j].st = "rejected" THEN "rejected"
  ELSE IF \A j \in 1..Len(tasks) : tasks[j].st = "ok" THEN "fulfilled"
  ELSE "pending"

\* mutant: the results in the order in which the calls completed
BatchResults_CompletionOrder(tasks, order) == [k \in 1..Len(order) |-> tasks[order[k]].out]

\* the value Promise.all is fulfilled with: the results in the order of the
\* promises it was given
BatchResults(tasks, order) == [j \in 1..Len(tasks) |-> tasks[j].out]

\* the message of the error that rejected the batch
RejectionOf(tasks) ==
  LET j == CHOOSE k \in 1..Len(tasks) : tasks[k].st = "rejected"
  IN  tasks[j].why

\* the handler after a translateChunk of the batch has settled: lines 95-98; the
\* settled promises of a fulfilled batch are dropped
AfterTask(s, clock) ==
  IF s.pc # "batch" THEN s
  ELSE LET outcome == BatchOutcome(s.tasks)
       IN  IF outcome = "pending" THEN s
           ELSE IF outcome = "rejected" THEN Fails(s, RejectionOf(s.tasks))
           ELSE LET chunks == s.chunks \o BatchResults(s.tasks, s.order)
                IN  IF s.i + Concurrency < Len(s.parts)
                    THEN StartBatch(s, s.i + Concurrency, chunks)
                    ELSE Assemble(s, chunks, clock)

\* lines 87-92: the pre-processing, the split and the first batch
StartTranslation(s, clock) ==
  LET parts == splitHtmlSmart(preProcessed(s.body), TOKEN_LIMIT, SAFETY_MARGIN)
      s1 == [s EXCEPT !.parts = parts]
  IN  IF Len(parts) > 0 THEN StartBatch(s1, 0, <<>>) ELSE Assemble(s1, <<>>, clock)

\* the titled handler after the cache lookup:  if (dryRun) return { key }
AfterLookup(s, clock) ==
  IF pVer = "titled" /\ s.body.dryRun
  THEN Respond(s, [NoResp EXCEPT !.status = 200, !.key = s.key])
  ELSE StartTranslation(s, clock)

\* the handler as a request arrives
Fresh(body) ==
  [pc |-> "idle", body |-> body, key |-> NoKey, parts |-> <<>>, i |-> 0,
   chunks |-> <<>>, tasks |-> <<>>, order |-> <<>>, full |-> <<>>, qa |-> NoQa,
   resp |-> NoResp,
   hist |-> [NoHist EXCEPT !.storeBefore = memStore, !.indexBefore = memIndex],
   store |-> memStore, index |-> memIndex, title |-> NoTitle]

\* mutant: one attempt counter for all the calls of the batch
RECURSIVE SumAttempts(_, _)
SumAttempts(tasks, n) == IF n = 0 THEN 0 ELSE tasks[n].attempt + SumAttempts(tasks, n - 1)
AttemptOf_Shared(tasks, j) == SumAttempts(tasks, Len(tasks))

\* the attempt counter a callWithRetry reads: its own  let attempt
AttemptOf(tasks, j) == tasks[j].attempt

\* callWithRetry, the catch branch: rethrow at attempt >= 5, else wait, count
\* and call again
Caught(call, attempt) ==
  IF attempt >= RetryLimit
  THEN [call EXCEPT !.st = "rejected", !.fails = @ + 1]
  ELSE [call EXCEPT !.attempt = @ + 1, !.calls = @ + 1, !.fails = @ + 1]

InitPost ==
  /\ IdleChunk /\ IdleKey /\ EmptyStore /\ IdleClient /\ IdleTrans /\ IdleApi /\ IdleRace /\ IdleBack /\ IdleSwap /\ IdleSample /\ IdlePrompt /\ IdleInter
  /\ pc = "idle" /\ pBody = NoBody /\ pKey = NoKey /\ pParts = <<>> /\ pI = 0
  /\ pChunks = <<>> /\ pTasks = <<>> /\ pOrder = <<>> /\ pFull = <<>> /\ pQa = NoQa
  /\ pResp = NoResp /\ pDoc \in Docs /\ nReq = 0 /\ faults = 0 /\ hist = NoHist
  /\ pVer = "plain" /\ pTitle = NoTitle

InFlight == {j \in 1..Len(pTasks) : pTasks[j].st = "flight"}

\* POST, lines 59-84 up to the first await: validation, the key, and either the
\* cache lookup or the start of the translation.  The clock has advanced.
Receive(body) ==
  /\ pc \in {"idle", "done"}
  /\ InFlight = {}
  /\ nReq < MaxRequests
  /\ nReq' = nReq + 1
  /\ now' = now + 1
  /\ faults' = 0
  /\ LET s0 == Fresh(body)
         s1 == [s0 EXCEPT !.key = KeyOf(body)]
     IN  IF MissingParams(body)
         THEN Becomes(Respond(s0, [NoResp EXCEPT !.status = BadRequest,
                                                !.error = "Missing params"]))
         ELSE IF body.useCache THEN Becomes([s1 EXCEPT !.pc = "lookup"])
         ELSE Becomes(AfterLookup(s1, now + 1))
  /\ UNCHANGED <<pDoc, pVer, varsChunk, varsKey, varsClient, varsTrans, varsApi, varsRace, varsBack, varsSwap, varsSample, varsPrompt, varsInter>>

\* mutant: the item found is saved again with a new createdAt
Hit_Resaved(s, cached) ==
  LET saved == memSave(s.store, s.index, [cached EXCEPT !.createdAt = @ + 1])
  IN  [Respond([s EXCEPT !.hist.hit = TRUE, !.hist.looked = TRUE],
               [NoResp EXCEPT !.status = 200, !.htmlOut = cached.htmlOut,
                              !.qaReport = cached.qaReport, !.key = s.key])
         EXCEPT !.store = saved.store, !.index = saved.index]

\* lines 81-83: the answer from the cache
Hit(s, cached) ==
  Respond([s EXCEPT !.hist.hit = TRUE, !.hist.looked = TRUE],
          [NoResp EXCEPT !.status = 200, !.htmlOut = cached.htmlOut,
                         !.qaReport = cached.qaReport, !.key = s.key])

\* lines 80-84: getByKey has answered
CacheLookup ==
  /\ pc = "lookup"
  /\ LET cached == memGet(memStore, pKey)
     IN  IF cached # NoItem
         THEN Becomes(Hit(S, cached))
         ELSE Becomes(AfterLookup([S EXCEPT !.hist.looked = TRUE], now))
  /\ UNCHANGED <<now, pDoc, pVer, nReq, faults, varsChunk, varsKey, varsClient, varsTrans, varsApi, varsRace, varsBack, varsSwap, varsSample, varsPrompt, varsInter>>

\* a task completes before a task given to Promise.all ahead of it
Overtakes(j) == \E k \in InFlight : k < j

\* translateChunk, lines 39-41: the model has answered with the translation
TranslateReturns(j) ==
  /\ j \in InFlight
  /\ LET out == Translated(pParts[pI + j])
         s1 == [S EXCEPT !.tasks[j].st = "ok", !.tasks[j].out = stripFences(out),
                         !.order = Append(@, j),
                         !.hist.outOfOrder = @ \/ (pc = "batch" /\ Overtakes(j))]
     IN  Becomes(AfterTask(s1, now))
  /\ UNCHANGED <<now, pDoc, pVer, nReq, faults, varsChunk, varsKey, varsClient, varsTrans, varsApi, varsRace, varsBack, varsSwap, varsSample, varsPrompt, varsInter>>

\* translateChunk, line 40: the model has answered TRUNCATED
TranslateTruncated(j) ==
  /\ j \in InFlight
  /\ LET out == <<"SENT">>
         s1 == [S EXCEPT !.tasks[j].st = "rejected", !.tasks[j].why = "truncated",
                         !.hist.failed = @ \/ pc = "batch"]
     IN  /\ Trim(out) = <<"SENT">>
         /\ Becomes(AfterTask(s1, now))
  /\ UNCHANGED <<now, pDoc, pVer, nReq, faults, varsChunk, varsKey, varsClient, varsTrans, varsApi, varsRace, varsBack, varsSwap, varsSample, varsPrompt, varsInter>>

\* callWithRetry in translateChunk: the call of the model has failed
TranslateCallFails(j) ==
  /\ j \in InFlight
  /\ faults < MaxFaults
  /\ faults' = faults + 1
  /\ LET call == Caught(pTasks[j], AttemptOf(pTasks, j))
         task == IF call.st = "rejected" THEN [call EXCEPT !.why = "failed"] ELSE call
         s1 == [S EXCEPT !.tasks[j] = task,
                         !.hist.failed = @ \/ (pc = "batch" /\ task.st = "rejected"),
                         !.hist.lateCall = @ \/ (pc = "done" /\ task.st = "flight")]
     IN  Becomes(AfterTask(s1, now))
  /\ UNCHANGED <<now, pDoc, pVer, nReq, varsChunk, varsKey, varsClient, varsTrans, varsApi, varsRace, varsBack, varsSwap, varsSample, varsPrompt, varsInter>>

\* the text of  `[Section ${idx + 1}]\n${sec}`
SectionIssue(idx, sec) == <<"SECTION", ToString(idx + 1), "NL">> \o sec

\* issues.join('\n\n')
RECURSIVE JoinBlank(_)
JoinBlank(ss) ==
  IF ss = <<>> THEN <<>>
  ELSE IF Len(ss) = 1 THEN ss[1]
  ELSE ss[1] \o <<"NL", "NL">> \o JoinBlank(Tail(ss))

\* qaPass has returned, lines 105-113 and then 117-134
QaReturns(reply) ==
  /\ pc = "qa" /\ pQa.st = "flight"
  /\ LET cur == pQa.secs[pQa.pos]
         sec == Trim(reply)
         issues == IF pQa.sampled /\ sec # <<>> /\ sec # NoIssues
                   THEN Append(pQa.issues, SectionIssue(cur.idx, sec)) ELSE pQa.issues
         report == IF ~pQa.sampled THEN sec
                   ELSE IF issues # <<>> THEN JoinBlank(issues) ELSE NoIssues
     IN  IF pQa.pos < Len(pQa.secs)
         THEN Becomes([S EXCEPT !.qa = QaCall([pQa EXCEPT !.issues = issues], pQa.pos + 1),
                                !.hist.qaCalls = @ + 1])
         ELSE Becomes(SaveAndRespond([S EXCEPT !.qa.issues = issues, !.qa.st = "ok",
                                               !.hist.qaDone = TRUE], report, now))
  /\ UNCHANGED <<now, pDoc, pVer, nReq, faults, varsChunk, varsKey, varsClient, varsTrans, varsApi, varsRace, varsBack, varsSwap, varsSample, varsPrompt, varsInter>>

\* callWithRetry in qaPass: the call of the model has failed
QaCallFails ==
  /\ pc = "qa" /\ pQa.st = "flight"
  /\ faults < MaxFaults
  /\ faults' = faults + 1
  /\ LET call == Caught(pQa, pQa.attempt)
     IN  IF call.st = "rejected"
         THEN Becomes(Fails([S EXCEPT !.qa = [call EXCEPT !.why = "failed"]], "failed"))
         ELSE Becomes([S EXCEPT !.qa = call])
  /\ UNCHANGED <<now, pDoc, pVer, nReq, varsChunk, varsKey, varsClient, varsTrans, varsApi, varsRace, varsBack, varsSwap, varsSample, varsPrompt, varsInter>>

\* mutant: the rejection of suggestTitle reaches the catch of the handler
TitleCaught_Rethrown(s, call, clock) == Fails([s EXCEPT !.title = call], "failed")

\* .catch(() => `${tgtLang}`): the target language is the title, then line 99
\* onwards
TitleCaught(s, call, clock) ==
  StartQa([s EXCEPT !.title = [call EXCEPT !.st = "caught", !.out = s.body.tgtLang]], clock)

\* the title the model suggests
TitleReplies == {<<"x">>}

\* suggestTitle has returned: the title, then line 99 onwards
TitleReturns(reply) ==
  /\ pc = "title" /\ pTitle.st = "flight"
  /\ Becomes(StartQa([S EXCEPT !.title.st = "ok", !.title.out = stripFences(reply)], now))
  /\ UNCHANGED <<now, pDoc, pVer, nReq, faults, varsChunk, varsKey, varsClient, varsTrans, varsApi, varsRace, varsBack, varsSwap, varsSample, varsPrompt, varsInter>>

\* callWithRetry in suggestTitle: the call of the model has failed
TitleCallFails ==
  /\ pc = "title" /\ pTitle.st = "flight"
  /\ faults < MaxFaults
  /\ faults' = faults + 1
  /\ LET call == Caught(pTitle, pTitle.attempt)
     IN  IF call.st = "rejected"
         THEN Becomes(TitleCaught(S, call, now))
         ELSE Becomes([S EXCEPT !.title = call])
  /\ UNCHANGED <<now, pDoc, pVer, nReq, varsChunk, varsKey, varsClient, varsTrans, varsApi, varsRace, varsBack, varsSwap, varsSample, varsPrompt, varsInter>>

\* the bodies a handler is sent
BodiesOf(doc) ==
  IF pVer = "titled" THEN TitledBodies(doc) ELSE PostBodies(doc) \cup LackingBodies(doc)

NextPost ==
  \/ \E body \in BodiesOf(pDoc) : Receive(body)
  \/ CacheLookup
  \/ \E j \in 1..Concurrency : TranslateReturns(j)
  \/ \E j \in 1..Concurrency : TranslateTruncated(j)
  \/ \E j \in 1..Concurrency : TranslateCallFails(j)
  \/ \E reply \in QaReplies : QaReturns(reply)
  \/ QaCallFails

SpecPost == InitPost /\ [][NextPost]_vars

\* the same handler when every call it awaits settles: getByKey answers, each
\* model call that is running returns or fails.  This is weak fairness of the
\* three steps, WF_vars(A) written as  []<>~(ENABLED <<A>>_vars) \/ []<><<A>>_vars
\* with ENABLED spelled out: the lookup can answer whenever the handler waits
\* for it, a call can return whenever it is in flight.
AwaitsLookup == pc = "lookup"
AwaitsModel == InFlight # {}
AwaitsQa == pc = "qa" /\ pQa.st = "flight"
ModelSettles ==
  \E j \in 1..Concurrency :
     TranslateReturns(j) \/ TranslateTruncated(j) \/ TranslateCallFails(j)
QaSettles == (\E reply \in QaReplies : QaReturns(reply)) \/ QaCallFails
Settles ==
  /\ []<>(~AwaitsLookup) \/ []<><<CacheLookup>>_vars
  /\ []<>(~AwaitsModel) \/ []<><<ModelSettles>>_vars
  /\ []<>(~AwaitsQa) \/ []<><<QaSettles>>_vars
LivePost == InitPost /\ [][NextPost]_vars /\ Settles

\* the handler with dryRun and suggestTitle, on the documents of one chunk
TitledDocs == {SmallDoc, MidDoc}
InitTitled ==
  /\ IdleChunk /\ IdleKey /\ EmptyStore /\ IdleClient /\ IdleTrans /\ IdleApi /\ IdleRace /\ IdleBack /\ IdleSwap /\ IdleSample /\ IdlePrompt /\ IdleInter
  /\ pc = "idle" /\ pBody = NoBody /\ pKey = NoKey /\ pParts = <<>> /\ pI = 0
  /\ pChunks = <<>> /\ pTasks = <<>> /\ pOrder = <<>> /\ pFull = <<>> /\ pQa = NoQa
  /\ pResp = NoResp /\ pDoc \in TitledDocs /\ nReq = 0 /\ faults = 0 /\ hist = NoHist
  /\ pVer = "titled" /\ pTitle = NoTitle
NextTitled == NextPost \/ (\E reply \in TitleReplies : TitleReturns(reply)) \/ TitleCallFails
SpecTitled == InitTitled /\ [][NextTitled]_vars

\* ---- two POST /translate requests at once.  Both carry the same body with
\* useCache set; each handler (lines 57-138 without dryRun or title) has its
\* own state and both work on the one store.  The clock moves with every step.
RaceBodies == {b \in PostBodies(SmallDoc) : b.htmlIn # <<>> /\ b.useCache}

\* the state of a handler without the store
HandlerOf(s) == [f \in DOMAIN s \ {"store", "index"} |-> s[f]]
\* the state of handler h and of the store, as the operators of the handler
\* read it
RaceState(h) == [store |-> memStore, index |-> memIndex] @@ rH[h]

RaceBecomes(h, s) ==
  /\ rH' = [rH EXCEPT ![h] = HandlerOf(s)]
  /\ memStore' = s.store /\ memIndex' = s.index
  /\ rLast' = IF s.hist.saves > rH[h].hist.saves THEN [by |-> h, at |-> now + 1] ELSE rLast
  /\ now' = now + 1
  /\ UNCHANGED <<rBody, varsChunk, varsKey, varsPost, varsClient, varsTrans, varsApi, varsBack, varsSwap, varsSample, varsPrompt, varsInter>>

InitRace ==
  /\ IdleChunk /\ IdleKey /\ EmptyStore /\ IdlePost /\ IdleClient /\ IdleTrans /\ IdleApi /\ IdleBack /\ IdleSwap /\ IdleSample /\ IdlePrompt /\ IdleInter
  /\ rBody \in RaceBodies
  /\ rH = [h \in 1..2 |-> HandlerOf(Fresh(NoBody))]
  /\ rLast = NoSave

\* lines 59-79: the request arrives at handler h
RaceReceive(h) ==
  /\ rH[h].pc = "idle"
  /\ LET s1 == [Fresh(rBody) EXCEPT !.key = KeyOf(rBody)]
     IN  IF MissingParams(rBody)
         THEN RaceBecomes(h, Respond(s1, [NoResp EXCEPT !.status = BadRequest,
                                                       !.error = "Missing params"]))
         ELSE IF rBody.useCache THEN RaceBecomes(h, [s1 EXCEPT !.pc = "lookup"])
         ELSE RaceBecomes(h, AfterLookup(s1, now + 1))

\* lines 80-84: getByKey has answered handler h
RaceLookup(h) ==
  /\ rH[h].pc = "lookup"
  /\ LET s == [RaceState(h) EXCEPT !.hist.looked = TRUE]
         cached == memGet(memStore, s.key)
     IN  IF cached # NoItem
         THEN RaceBecomes(h, Respond([s EXCEPT !.hist.hit = TRUE],
                                     [NoResp EXCEPT !.status = 200, !.htmlOut = cached.htmlOut,
                                                    !.qaReport = cached.qaReport, !.key = s.key]))
         ELSE RaceBecomes(h, AfterLookup(s, now + 1))

RaceInFlight(h) == {j \in 1..Len(rH[h].tasks) : rH[h].tasks[j].st = "flight"}

\* translateChunk of handler h: the model has answered with the translation
RaceTranslateReturns(h, j) ==
  /\ j \in RaceInFlight(h)
  /\ LET s == RaceState(h)
         out == Translated(s.parts[s.i + j])
         s1 == [s EXCEPT !.tasks[j].st = "ok", !.tasks[j].out = stripFences(out),
                         !.order = Append(@, j)]
     IN  RaceBecomes(h, AfterTask(s1, now + 1))

\* translateChunk of handler h: the model has answered TRUNCATED
RaceTranslateTruncated(h, j) ==
  /\ j \in RaceInFlight(h)
  /\ LET s1 == [RaceState(h) EXCEPT !.tasks[j].st = "rejected", !.tasks[j].why = "truncated",
                                    !.hist.failed = TRUE]
     IN  RaceBecomes(h, AfterTask(s1, now + 1))

\* callWithRetry in translateChunk of handler h: the call of the model has failed
RaceTranslateCallFails(h, j) ==
  /\ j \in RaceInFlight(h)
  /\ LET s == RaceState(h)
         call == Caught(s.tasks[j], AttemptOf(s.tasks, j))
         task == IF call.st = "rejected" THEN [call EXCEPT !.why = "failed"] ELSE call
         s1 == [s EXCEPT !.tasks[j] = task, !.hist.failed = @ \/ task.st = "rejected"]
     IN  RaceBecomes(h, AfterTask(s1, now + 1))

\* qaPass of handler h has returned (the QA here is never sampled)
RaceQaReturns(h, reply) ==
  /\ rH[h].pc = "qa" /\ rH[h].qa.st = "flight" /\ ~rH[h].qa.sampled
  /\ LET s == [RaceState(h) EXCEPT !.qa.st = "ok", !.hist.qaDone = TRUE]
     IN  RaceBecomes(h, SaveAndRespond(s, Trim(reply), now + 1))

\* callWithRetry in qaPass of handler h: the call of the model has failed
RaceQaCallFails(h) ==
  /\ rH[h].pc = "qa" /\ rH[h].qa.st = "flight"
  /\ LET s == RaceState(h)
         call == Caught(s.qa, s.qa.attempt)
     IN  IF call.st = "rejected"
         THEN RaceBecomes(h, Fails([s EXCEPT !.qa = [call EXCEPT !.why = "failed"]], "failed"))
         ELSE RaceBecomes(h, [s EXCEPT !.qa = call])

NextRace ==
  \/ \E h \in 1..2 : RaceReceive(h)
  \/ \E h \in 1..2 : RaceLookup(h)
  \/ \E h \in 1..2, j \in 1..Concurrency : RaceTranslateReturns(h, j)
  \/ \E h \in 1..2, j \in 1..Concurrency : RaceTranslateTruncated(h, j)
  \/ \E h \in 1..2, j \in 1..Concurrency : RaceTranslateCallFails(h, j)
  \/ \E h \in 1..2, reply \in QaReplies : RaceQaReturns(h, reply)
  \/ \E h \in 1..2 : RaceQaCallFails(h)

SpecRace == InitRace /\ [][NextRace]_vars

\* ------------------------------------------------------------ the small routes
\* /translate/chunk, /qa, /title, /save, /item and /history over the in-memory
\* store, one request at a time.  A request is a record of the fields its route
\* reads; a field that is absent or empty is <<>>, an absent createdAt is 0.

\* how many requests one behaviour receives
MaxCalls == 3
\* the createdAt values a /save request can carry, 1..MaxStamp
MaxStamp == 2
\* item/route.ts line 10
NotFound == 404
\* history/route.ts line 6
HistoryLimit == 50

ApiKeys == {<<"k">>, <<"m">>}
ApiTexts == {<<>>, <<"a">>}
ApiSrcLangs == {<<>>, <<114>>}
ApiTgtLangs == {<<>>, <<101>>}

ChunkBodies ==
  {[NoReq EXCEPT !.route = "chunk", !.text = c, !.srcLang = s, !.tgtLang = t] :
     c \in ApiTexts, s \in ApiSrcLangs, t \in ApiTgtLangs}
QaBodies ==
  {[NoReq EXCEPT !.route = "qa", !.text = c, !.tgt = t] : c \in ApiTexts, t \in {<<>>, <<"b">>}}
TitleBodies ==
  {[NoReq EXCEPT !.route = "title", !.text = c, !.tgtLang = t] :
     c \in ApiTexts, t \in ApiTgtLangs}
SaveBodies ==
  {[NoReq EXCEPT !.route = "save", !.key = k, !.text = c, !.srcLang = s, !.tgtLang = t,
                 !.htmlOut = o, !.createdAt = at] :
     k \in ApiKeys \cup {<<>>}, c \in ApiTexts, s \in ApiSrcLangs, t \in ApiTgtLangs,
     o \in {<<>>, <<"b">>}, at \in 0..MaxStamp}
ItemQueries(route) == {[NoReq EXCEPT !.route = route, !.key = k] : k \in ApiKeys \cup {<<>>}}
ApiRequests ==
  ChunkBodies \cup QaBodies \cup TitleBodies \cup SaveBodies
    \cup ItemQueries("item") \cup ItemQueries("delete") \cup {[NoReq EXCEPT !.route = "history"]}

\* what the model answers to a /translate/chunk, /qa or /title call
ApiReplies == {<<"x">>, <<"SP", "x", "NL">>, <<"SENT">>}

\* mutant: no request is turned away
Lacks_Never(req) == FALSE

\* the guard each handler starts with
Lacks(req) ==
  CASE req.route = "chunk" -> req.text = <<>> \/ req.srcLang = <<>> \/ req.tgtLang = <<>>
    [] req.route = "qa" -> req.text = <<>> \/ req.tgt = <<>>
    [] req.route = "title" -> req.text = <<>> \/ req.tgtLang = <<>>
    [] req.route = "save" ->
         req.key = <<>> \/ req.srcLang = <<>> \/ req.tgtLang = <<>> \/ req.text = <<>>
    [] req.route \in {"item", "delete"} -> req.key = <<>>
    [] OTHER -> FALSE

\* mutant: the item is deleted, its index entry is left
memDelete_ItemOnly(store, index, key) ==
  [store |-> SelectSeq(store, LAMBDA it : it.key # key), index |-> index]

\* memDelete
memDelete(store, index, key) ==
  [store |-> SelectSeq(store, LAMBDA it : it.key # key),
   index |-> IndexWithout(index, key)]

\* [...memIndex].sort((a, b) => b.score - a.score): highest score first, entries
\* of equal score in the order they had (the sort is stable)
RECURSIVE SortByScore(_)
SortByScore(index) ==
  IF index = <<>> THEN <<>>
  ELSE LET rest == SortByScore(SubSeq(index, 1, Len(index) - 1))
           e == index[Len(index)]
           ahead == Cardinality({i \in 1..Len(rest) : rest[i].score >= e.score})
       IN  SubSeq(rest, 1, ahead) \o <<e>> \o SubSeq(rest, ahead + 1, Len(rest))

\* mutant: the index is listed as it stands
memList_Unsorted(store, index, limit) ==
  LET first == SubSeq(index, 1, Min(limit, Len(index)))
      found == SelectSeq(first, LAMBDA e : e.key \in KeysOf(store))
  IN  [i \in 1..Len(found) |->
         LET it == memGet(store, found[i].key)
         IN  [key |-> found[i].key, tgt |-> it.tgtLang, src |-> it.srcLang,
              title |-> it.title, createdAt |-> it.createdAt]]

\* memList
memList(store, index, limit) ==
  LET sorted == SortByScore(index)
      first == SubSeq(sorted, 1, Min(limit, Len(sorted)))
      found == SelectSeq(first, LAMBDA e : e.key \in KeysOf(store))
  IN  [i \in 1..Len(found) |->
         LET it == memGet(store, found[i].key)
         IN  [key |-> found[i].key, tgt |-> it.tgtLang, src |-> it.srcLang,
              title |-> it.title, createdAt |-> it.createdAt]]

\* the item /save stores: absent strings as '', an absent createdAt as the clock
SavedItem(req, clock) ==
  [key |-> req.key, srcLang |-> req.srcLang, tgtLang |-> req.tgtLang, title |-> req.title,
   oldDom |-> req.oldDom, newDom |-> req.newDom, runQa |-> req.runQa, htmlIn |-> req.text,
   htmlOut |-> req.htmlOut, qaReport |-> req.qaReport,
   createdAt |-> IF req.createdAt = 0 THEN clock ELSE req.createdAt]

\* mutant: GET /item answers 200 whatever getByKey returned
ItemAnswer_Found(it) ==
  [NoApiResp EXCEPT !.status = 200,
                    !.out = IF it = NoItem THEN <<>> ELSE it.htmlOut,
                    !.qaReport = IF it = NoItem THEN <<>> ELSE it.qaReport]

\* GET /item, lines 10-11
ItemAnswer(it) ==
  IF it = NoItem THEN [NoApiResp EXCEPT !.status = NotFound, !.error = "Not found"]
  ELSE [NoApiResp EXCEPT !.status = 200, !.out = it.htmlOut, !.qaReport = it.qaReport]

InitApi ==
  /\ IdleChunk /\ IdleKey /\ EmptyStore /\ IdlePost /\ IdleClient /\ IdleTrans /\ IdleRace /\ IdleBack /\ IdleSwap /\ IdleSample /\ IdlePrompt /\ IdleInter
  /\ aPc = "idle" /\ aReq = NoReq /\ aResp = NoApiResp /\ aAttempt = 0
  /\ aLog = NoLog /\ aN = 0

\* a request arrives and its handler runs up to its response or its model call
ApiReceive(req) ==
  /\ aPc \in {"idle", "done"}
  /\ aN < MaxCalls
  /\ aN' = aN + 1
  /\ now' = now + 1
  /\ aReq' = req
  /\ aAttempt' = 0
  /\ LET log == [NoLog EXCEPT !.store = memStore, !.index = memIndex]
     IN  IF Lacks(req)
         THEN /\ aResp' = [NoApiResp EXCEPT !.status = BadRequest, !.error = "Missing params"]
              /\ aPc' = "done" /\ aLog' = log
              /\ UNCHANGED <<memStore, memIndex>>
         ELSE CASE req.route \in {"chunk", "qa", "title"} ->
                     /\ aPc' = "model" /\ aResp' = NoApiResp
                     /\ aLog' = [log EXCEPT !.calls = 1]
                     /\ UNCHANGED <<memStore, memIndex>>
                [] req.route = "save" ->
                     LET saved == memSave(memStore, memIndex, SavedItem(req, now + 1))
                     IN  /\ memStore' = saved.store /\ memIndex' = saved.index
                         /\ aPc' = "done" /\ aResp' = [NoApiResp EXCEPT !.status = 200]
                         /\ aLog' = [log EXCEPT !.writes = 1]
                [] req.route = "item" ->
                     /\ aPc' = "done" /\ aResp' = ItemAnswer(memGet(memStore, req.key))
                     /\ aLog' = [log EXCEPT !.reads = 1]
                     /\ UNCHANGED <<memStore, memIndex>>
                [] req.route = "delete" ->
                     LET left == memDelete(memStore, memIndex, req.key)
                     IN  /\ memStore' = left.store /\ memIndex' = left.index
                         /\ aPc' = "done" /\ aResp' = [NoApiResp EXCEPT !.status = 200]
                         /\ aLog' = [log EXCEPT !.writes = 1]
                [] OTHER ->
                     /\ aPc' = "done"
                     /\ aResp' = [NoApiResp EXCEPT !.status = 200,
                                    !.items = memList(memStore, memIndex, HistoryLimit)]
                     /\ aLog' = [log EXCEPT !.reads = 1]
                     /\ UNCHANGED <<memStore, memIndex>>
  /\ UNCHANGED <<varsChunk, varsKey, varsPost, varsClient, varsTrans, varsRace, varsBack, varsSwap, varsSample, varsPrompt, varsInter>>

\* the model has answered the call of /translate/chunk, /qa or /title
ApiModelReturns(reply) ==
  /\ aPc = "model"
  /\ aPc' = "done"
  /\ aResp' = CASE aReq.route = "chunk" ->
                     IF Trim(reply) = <<"SENT">>
                     THEN [NoApiResp EXCEPT !.status = BadRequest, !.error = "Chunk too large"]
                     ELSE [NoApiResp EXCEPT !.status = 200, !.out = stripFences(reply)]
                [] aReq.route = "qa" -> [NoApiResp EXCEPT !.status = 200, !.out = Trim(reply)]
                [] OTHER -> [NoApiResp EXCEPT !.status = 200, !.out = stripFences(reply)]
  /\ UNCHANGED <<aReq, aAttempt, aLog, aN, varsStore, varsChunk, varsKey, varsPost,
                 varsClient, varsTrans, varsRace, varsBack, varsSwap, varsSample, varsPrompt, varsInter>>

\* the model call has failed: callWithRetry calls again, or rethrows into the catch
ApiCallFails ==
  /\ aPc = "model"
  /\ IF aAttempt >= RetryLimit
     THEN /\ aPc' = "done"
          /\ aResp' = [NoApiResp EXCEPT !.status = ErrorStatus, !.error = "failed"]
          /\ UNCHANGED <<aAttempt, aLog>>
     ELSE /\ aAttempt' = aAttempt + 1
          /\ aLog' = [aLog EXCEPT !.calls = @ + 1]
          /\ UNCHANGED <<aPc, aResp>>
  /\ UNCHANGED <<aReq, aN, varsStore, varsChunk, varsKey, varsPost, varsClient, varsTrans, varsRace, varsBack, varsSwap, varsSample, varsPrompt, varsInter>>

NextApi ==
  \/ \E req \in ApiRequests : ApiReceive(req)
  \/ \E reply \in ApiReplies : ApiModelReturns(reply)
  \/ ApiCallFails

SpecApi == InitApi /\ [][NextApi]_vars

\* every route that validates its request: POST /translate or the small routes
InitRoutes == InitPost \/ InitApi
NextRoutes == NextPost \/ NextApi
SpecRoutes == InitRoutes /\ [][NextRoutes]_vars

\* ------------------------------------------------------------ the domain swap
\* deterministicDomainSwap (lib/chunk.ts) called on its own, for every html and
\* every pair of domains; a domain is the empty string, one token or two.
SwapHtmls == StringsUpTo({"o", "n", "a"}, MaxLen)
SwapDomains == {<<>>, <<"o">>, <<"n">>, <<"o", "o">>, <<"o", "n">>}

InitSwap ==
  /\ IdleChunk /\ IdleKey /\ EmptyStore /\ IdlePost /\ IdleClient /\ IdleTrans /\ IdleApi /\ IdleRace /\ IdleBack /\ IdleSample /\ IdlePrompt /\ IdleInter
  /\ wHtml \in SwapHtmls /\ wOld \in SwapDomains /\ wNew \in SwapDomains
  /\ wOut = <<>> /\ wpc = "ready"

CallDomainSwap ==
  /\ wpc = "ready"
  /\ wOut' = deterministicDomainSwap(wHtml, wOld, wNew)
  /\ wpc' = "swapped"
  /\ UNCHANGED <<wHtml, wOld, wNew, varsChunk, varsKey, varsStore, varsPost, varsClient, varsTrans, varsApi, varsRace, varsBack, varsSample, varsPrompt, varsInter>>

NextSwap == CallDomainSwap
SpecSwap == InitSwap /\ [][NextSwap]_vars

\* the swap on its own and inside POST /translate
InitSwaps == InitSwap \/ InitPost
NextSwaps == NextSwap \/ NextPost
SpecSwaps == InitSwaps /\ [][NextSwaps]_vars

\* ------------------------------------------------------------ the two backends
\* lib/storage.ts with the same calls made on the in-memory fallback (hasKV()
\* false) and on the KV backend (hasKV() true).  A hash tr:<key> is the item it
\* holds; the sorted set tr_index is a set of {member, score} with one entry
\* per member, which the server keeps ordered by score and, for equal scores,
\* by member.

\* the code units of a key
KeyCodes(key) == [i \in 1..Len(key) |-> IF key[i] = "k" THEN 107 ELSE 109]

\* HSET: the fields given are written, the other fields of the hash are kept
kvHset(hashes, item) ==
  LET old == {h \in hashes : h.key = item.key}
  IN  (hashes \ old) \cup {IF old = {} THEN item ELSE item @@ (CHOOSE h \in old : TRUE)}

\* ZADD: the member gets the score, whether it was in the set or not
kvZadd(zset, member, score) ==
  {e \in zset : e.member # member} \cup {[member |-> member, score |-> score]}

\* HGETALL: the hash, null when there is none
kvHgetall(hashes, key) ==
  IF \E h \in hashes : h.key = key THEN CHOOSE h \in hashes : h.key = key ELSE NoItem

\* the order of the sorted set: by score, members of equal score by their bytes
ZLess(a, b) ==
  \/ a.score < b.score
  \/ a.score = b.score /\ StrLess(KeyCodes(a.member), KeyCodes(b.member))

\* ZRANGE key 0 stop REV: the members from the highest rank down
RECURSIVE ZRevRange(_, _)
ZRevRange(zset, count) ==
  IF zset = {} \/ count <= 0 THEN <<>>
  ELSE LET top == CHOOSE e \in zset : \A o \in zset \ {e} : ZLess(o, e)
       IN  <<top.member>> \o ZRevRange(zset \ {top}, count - 1)

\* save with hasKV(), lines 33-34
kvSave(kv, item) ==
  [hashes |-> kvHset(kv.hashes, item),
   zset |-> kvZadd(kv.zset, item.key, item.createdAt)]

\* getByKey with hasKV(), lines 42-44
kvGet(kv, key) == kvHgetall(kv.hashes, key)

\* listRecent with hasKV(), lines 51-57: the keys of the items listed
kvListKeys(kv, limit) ==
  SelectSeq(ZRevRange(kv.zset, limit), LAMBDA key : kvHgetall(kv.hashes, key) # NoItem)

\* removeByKey with hasKV(), lines 64-66
kvRemove(kv, key) ==
  [hashes |-> {h \in kv.hashes : h.key # key},
   zset |-> {e \in kv.zset : e.member # key}]

\* the keys of the items memList lists
memListKeys(mem, limit) ==
  LET listed == memList(mem.store, mem.index, limit)
  IN  [i \in 1..Len(listed) |-> listed[i].key]

\* what a caller of getByKey sees of an item: whether it is there, its output
\* and its report
Seen(it) ==
  IF it = NoItem THEN <<"absent">> ELSE <<"present", it.htmlOut, it.qaReport>>

\* the items saved: two keys, two outputs, createdAt values that can be equal
BackItems ==
  { [key |-> k, srcLang |-> <<114>>, tgtLang |-> <<101>>, title |-> <<>>,
     oldDom |-> <<>>, newDom |-> <<>>, runQa |-> FALSE, htmlIn |-> <<"a">>,
     htmlOut |-> out, qaReport |-> qa, createdAt |-> at] :
       k \in ApiKeys, out \in {<<"b">>, <<"x">>}, qa \in {<<>>, <<"q">>}, at \in 1..MaxStamp }

\* the limits listRecent is called with: one, two and the default of /history
BackLimits == {1, 2, HistoryLimit}

InitBack ==
  /\ IdleChunk /\ IdleKey /\ EmptyStore /\ IdlePost /\ IdleClient /\ IdleTrans /\ IdleApi /\ IdleRace /\ IdleSwap /\ IdleSample /\ IdlePrompt /\ IdleInter
  /\ bMem = NoStore /\ bKv = NoKv /\ bSeen = NoSeen /\ bN = 0

BackRest == UNCHANGED <<varsChunk, varsKey, varsStore, varsPost, varsClient, varsTrans, varsApi, varsRace, varsSwap, varsSample, varsPrompt, varsInter>>

\* save(item) on each backend
BackSave(item) ==
  /\ bN < MaxCalls
  /\ bN' = bN + 1
  /\ bMem' = memSave(bMem.store, bMem.index, item)
  /\ bKv' = kvSave(bKv, item)
  /\ bSeen' = [op |-> "save", arg |-> item, mem |-> <<>>, kv |-> <<>>]
  /\ BackRest

\* getByKey(key) on each backend
BackGet(key) ==
  /\ bN < MaxCalls
  /\ bN' = bN + 1
  /\ bSeen' = [op |-> "get", arg |-> key, mem |-> Seen(memGet(bMem.store, key)), kv |-> Seen(kvGet(bKv, key))]
  /\ UNCHANGED <<bMem, bKv>>
  /\ BackRest

\* listRecent(limit) on each backend
BackList(limit) ==
  /\ bN < MaxCalls
  /\ bN' = bN + 1
  /\ bSeen' = [op |-> "list", arg |-> limit, mem |-> memListKeys(bMem, limit), kv |-> kvListKeys(bKv, limit)]
  /\ UNCHANGED <<bMem, bKv>>
  /\ BackRest

\* removeByKey(key) on each backend
BackRemove(key) ==
  /\ bN < MaxCalls
  /\ bN' = bN + 1
  /\ bMem' = memDelete(bMem.store, bMem.index, key)
  /\ bKv' = kvRemove(bKv, key)
  /\ bSeen' = [op |-> "remove", arg |-> key, mem |-> <<>>, kv |-> <<>>]
  /\ BackRest

NextBack ==
  \/ \E item \in BackItems : BackSave(item)
  \/ \E key \in ApiKeys : BackGet(key)
  \/ \E limit \in BackLimits : BackList(limit)
  \/ \E key \in ApiKeys : BackRemove(key)

SpecBack == InitBack /\ [][NextBack]_vars

\* ------------------------------------------------------------ save and remove at once
\* save(item) and removeByKey(key) of lib/storage.ts with hasKV(), called by
\* two requests at the same time: each awaits its first KV call before it makes
\* its second, and the KV store runs the calls one at a time in the order they
\* arrive.

\* what the store holds before the two calls: nothing, or an item saved earlier
InterStores == {NoKv} \cup {kvSave(NoKv, item) : item \in BackItems}

InitInter ==
  /\ IdleChunk /\ IdleKey /\ EmptyStore /\ IdlePost /\ IdleClient /\ IdleTrans /\ IdleApi /\ IdleRace /\ IdleBack /\ IdleSwap /\ IdleSample /\ IdlePrompt
  /\ iKv \in InterStores /\ iItem \in BackItems /\ iKey \in ApiKeys
  /\ iSave = "hset" /\ iRem = "del"

InterRest ==
  UNCHANGED <<iItem, iKey, varsChunk, varsKey, varsStore, varsPost, varsClient, varsTrans,
              varsApi, varsRace, varsBack, varsSwap, varsSample, varsPrompt>>

\* line 33: kv.hset
SaveHset ==
  /\ iSave = "hset"
  /\ iKv' = [iKv EXCEPT !.hashes = kvHset(@, iItem)]
  /\ iSave' = "zadd"
  /\ UNCHANGED iRem
  /\ InterRest

\* line 34: kv.zadd, and the return
SaveZadd ==
  /\ iSave = "zadd"
  /\ iKv' = [iKv EXCEPT !.zset = kvZadd(@, iItem.key, iItem.createdAt)]
  /\ iSave' = "done"
  /\ UNCHANGED iRem
  /\ InterRest

\* line 64: kv.del
RemoveDel ==
  /\ iRem = "del"
  /\ iKv' = [iKv EXCEPT !.hashes = {h \in @ : h.key # iKey}]
  /\ iRem' = "zrem"
  /\ UNCHANGED iSave
  /\ InterRest

\* line 66: kv.zrem, and the return
RemoveZrem ==
  /\ iRem = "zrem"
  /\ iKv' = [iKv EXCEPT !.zset = {e \in @ : e.member # iKey}]
  /\ iRem' = "done"
  /\ UNCHANGED iSave
  /\ InterRest

NextInter == SaveHset \/ SaveZadd \/ RemoveDel \/ RemoveZrem

SpecInter == InitInter /\ [][NextInter]_vars

\* ------------------------------------------------------------ the client flow
\* app/page.tsx, translate(): the local split and the pool of workers.  A
\* string here is a list of stretches of htmlIn: "12:40" stands for
\* htmlIn.slice(12, 40), "t12:40" for what /api/translate/chunk answers for it.
\* const approx = 3000
Approx == 3000
\* const concurrency = 2
ClientConcurrency == 2
\* the longest htmlIn, in slices of approx characters
MaxSlices == 4

Stretch(from, to) == ToString(from) \o ":" \o ToString(to)
\* htmlIn.slice(from, from + approx) of a text of n characters
SliceAt(n, from) == <<Stretch(from, Min(from + Approx, n))>>
\* the out of /api/translate/chunk for a chunk
ChunkOut(chunk) == <<"t" \o chunk[1]>>

\* line 61: for (let i = 0; i < htmlIn.length; i += approx) localParts.push(...)
RECURSIVE LocalParts(_, _)
LocalParts(n, i) == IF i < n THEN <<SliceAt(n, i)>> \o LocalParts(n, i + Approx) ELSE <<>>

\* an element of outParts that was never assigned
Hole == <<"HOLE">>

ClientLengths ==
  {0, 1} \cup {k * Approx : k \in 1..MaxSlices} \cup {k * Approx + 1 : k \in 1..(MaxSlices - 1)}

\* how many times the user starts translate() on the same form
MaxRuns == 2

\* htmlIn of n characters as computeKey reads it: a slice of approx characters
\* is read as one code unit, a last single character as another
ClientText(n) == [i \in 1..(n \div Approx) |-> "L"] \o (IF n % Approx = 0 THEN <<>> ELSE <<"a">>)

\* the body of the dry run (line 52) for a text of n characters, with the runQa
\* it names
ClientBody(n, runQa) ==
  [htmlIn |-> ClientText(n), srcLang |-> <<114>>, tgtLang |-> <<101>>, oldDom |-> <<"o">>,
   newDom |-> <<"n">>, runQa |-> runQa, useCache |-> FALSE]

\* the fields the handler passes to computeKey when the page has sent them: the
\* currency fields are the strings of the form, removeConvertBlocks its checkbox
ClientRequestOf(body) ==
  [RequestOf(body) EXCEPT !.curFrom = Str(<<114>>), !.curTo = Str(<<117>>),
                          !.curLbl = Str(<<85>>), !.removeConvertBlocks = Bool(FALSE)]

\* chunk/route.ts line 286, computed once for every body the page can send
ClientKeyTable ==
  [n \in ClientLengths \ {0}, runQa \in BOOLEAN |->
     computeKey(KeyPayload(ClientRequestOf(ClientBody(n, runQa))))]

\* chunk/route.ts lines 283-298, the answer to the dry run of line 52, whose
\* body says runQa: false and dryRun: true
DryRun(n, useCache, store) ==
  IF n = 0 THEN [NoDry EXCEPT !.status = BadRequest]
  ELSE LET key == ClientKeyTable[n, FALSE]
           cached == memGet(store, key)
       IN  IF useCache /\ cached # NoItem
           THEN [status |-> 200, hit |-> TRUE, htmlOut |-> cached.htmlOut,
                 qaReport |-> cached.qaReport, key |-> key]
           ELSE [NoDry EXCEPT !.status = 200, !.key = key]

InitClient ==
  /\ IdleChunk /\ IdleKey /\ EmptyStore /\ IdlePost /\ IdleTrans /\ IdleApi /\ IdleRace /\ IdleBack /\ IdleSwap /\ IdleSample /\ IdlePrompt /\ IdleInter
  /\ uPc = "title" /\ uLen \in ClientLengths /\ uParts = <<>> /\ uOut = <<>>
  /\ uIdx = 0 /\ uWork = <<>> /\ uFull = <<>> /\ uTitle = NoClientTitle /\ uKey = <<>>
  /\ uSent = <<>>
  /\ uReq \in [runQa : BOOLEAN, useCache : BOOLEAN] /\ uDry = NoDry /\ uRuns = 1

\* how the /api/title request can end: a title, an error status, or a fetch that
\* throws; an empty htmlIn is turned away by the route
TitleOutcomes(n) == IF n = 0 THEN {"error", "threw"} ELSE {"ok", "error", "threw"}

\* lines 42-47: the title request has ended; the catch is empty
ClientTitle(outcome) ==
  /\ uPc = "title"
  /\ outcome \in TitleOutcomes(uLen)
  /\ uTitle' = [st |-> outcome, out |-> IF outcome = "ok" THEN <<"x">> ELSE <<>>]
  /\ uPc' = "key"
  /\ UNCHANGED <<uLen, uParts, uOut, uIdx, uWork, uFull, uKey, uSent, uReq, uDry, uRuns, varsChunk, varsKey,
                 varsStore, varsPost, varsTrans, varsApi, varsRace, varsBack, varsSwap, varsSample, varsPrompt, varsInter>>

\* lines 49-56: the dry run has answered, with what the handler returns or with
\* an error status (as it does for an empty htmlIn), which is thrown; of the
\* answer line 56 reads the key
ClientKey(ok) ==
  /\ uPc = "key"
  /\ LET answer == DryRun(uLen, uReq.useCache, memStore)
         data == IF ok THEN answer ELSE [NoDry EXCEPT !.status = 500]
     IN  /\ uDry' = data
         /\ uKey' = data.key
         /\ uPc' = IF data.status = 200 THEN "start" ELSE "failed"
  /\ UNCHANGED <<uLen, uParts, uOut, uIdx, uWork, uFull, uTitle, uSent, uReq, uRuns, varsChunk, varsKey,
                 varsStore, varsPost, varsTrans, varsApi, varsRace, varsBack, varsSwap, varsSample, varsPrompt, varsInter>>

\* mutant: the worker reads idx when another worker has read it and not yet
\* written it back
Claim_Stale(idx, n) ==
  IF idx >= n THEN [st |-> "done", myIdx |-> idx]
  ELSE [st |-> "fetch", myIdx |-> IF idx > 0 THEN idx - 1 ELSE idx]

\* worker(), from  const myIdx = idx++  to the fetch or the break
Claim(idx, n) == IF idx >= n THEN [st |-> "done", myIdx |-> idx] ELSE [st |-> "fetch", myIdx |-> idx]

\* line 74: the fetch of worker w, when its claim led to one; late tells that
\* translate() had already failed when the request was sent
Sends(sent, w, claim, phase) ==
  IF claim.st = "fetch"
  THEN Append(sent, [w |-> w, idx |-> claim.myIdx, late |-> phase = "failed"])
  ELSE sent

\* the requests of the workers as they are started one after another
RECURSIVE SendsAll(_, _)
SendsAll(work, w) ==
  IF w = 0 THEN <<>> ELSE Sends(SendsAll(work, w - 1), w, work[w], "pool")

\* Promise.all(workers) as the workers stand, and line 82 when it is fulfilled
AfterWorker(work, out, phase) ==
  IF phase # "pool" THEN <<phase, <<>>>>
  ELSE IF \E w \in 1..Len(work) : work[w].st = "threw" THEN <<"failed", <<>>>>
  ELSE IF \A w \in 1..Len(work) : work[w].st = "done" THEN <<"joined", JoinNL(out)>>
  ELSE <<"pool", <<>>>>

\* lines 58-80: the split, outParts, and the workers started one after another,
\* each running to its first fetch
ClientStart ==
  /\ uPc = "start"
  /\ LET parts == LocalParts(uLen, 0)
         n == Len(parts)
         count == Min(ClientConcurrency, n)
         work == [w \in 1..count |-> Claim(w - 1, n)]
         after == AfterWorker(work, <<>>, "pool")
     IN  /\ uParts' = parts
         /\ uOut' = [i \in 1..n |-> Hole]
         /\ uWork' = work
         /\ uSent' = SendsAll(work, count)
         /\ uIdx' = count
         /\ uPc' = after[1]
         /\ uFull' = after[2]
  /\ UNCHANGED <<uLen, uTitle, uKey, uReq, uDry, uRuns, varsChunk, varsKey, varsStore, varsPost, varsTrans, varsApi, varsRace, varsBack, varsSwap, varsSample, varsPrompt, varsInter>>

\* lines 74-76 and the next turn of the loop: the chunk request of worker w was
\* answered with status 200; out is what the body carried, maybe nothing
ChunkAnswered(w, withOut) ==
  /\ w \in 1..Len(uWork) /\ uWork[w].st = "fetch"
  /\ LET myIdx == uWork[w].myIdx
         out == IF withOut THEN ChunkOut(uParts[myIdx + 1]) ELSE <<>>
         outs == [uOut EXCEPT ![myIdx + 1] = out]
         work == [uWork EXCEPT ![w] = Claim(uIdx, Len(uParts))]
         after == AfterWorker(work, outs, uPc)
     IN  /\ uOut' = outs
         /\ uWork' = work
         /\ uSent' = Sends(uSent, w, work[w], uPc)
         /\ uIdx' = uIdx + 1
         /\ uPc' = after[1]
         /\ uFull' = after[2]
  /\ UNCHANGED <<uLen, uParts, uTitle, uKey, uReq, uDry, uRuns, varsChunk, varsKey, varsStore, varsPost, varsTrans, varsApi, varsRace, varsBack, varsSwap, varsSample, varsPrompt, varsInter>>

\* line 74: the chunk request of worker w failed or was answered with an error
ChunkRefused(w) ==
  /\ w \in 1..Len(uWork) /\ uWork[w].st = "fetch"
  /\ LET work == [uWork EXCEPT ![w].st = "threw"]
         after == AfterWorker(work, uOut, uPc)
     IN  /\ uWork' = work
         /\ uPc' = after[1]
         /\ uFull' = after[2]
  /\ UNCHANGED <<uLen, uParts, uOut, uIdx, uTitle, uKey, uSent, uReq, uDry, uRuns, varsChunk, varsKey, varsStore, varsPost, varsTrans, varsApi, varsRace, varsBack, varsSwap, varsSample, varsPrompt, varsInter>>

\* what the /qa requests of lines 86-114 leave in report
ClientReports(runQa) == IF runQa THEN {<<>>, <<"q">>} ELSE {<<>>}

\* lines 86-117: the report of the QA requests when runQa is set, then the
\* /api/save request and its handler; the answer is not read
ClientSave(report) ==
  /\ uPc = "joined"
  /\ report \in ClientReports(uReq.runQa)
  /\ LET req == [NoReq EXCEPT !.route = "save", !.key = uKey, !.srcLang = <<114>>,
                              !.tgtLang = <<101>>, !.title = uTitle.out,
                              !.oldDom = <<"o">>, !.newDom = <<"n">>,
                              !.runQa = uReq.runQa, !.qaReport = report,
                              !.text = <<Stretch(0, uLen)>>, !.htmlOut = uFull,
                              !.createdAt = now + 1]
         saved == memSave(memStore, memIndex, SavedItem(req, now + 1))
     IN  IF Lacks(req) THEN UNCHANGED <<memStore, memIndex>>
         ELSE memStore' = saved.store /\ memIndex' = saved.index
  /\ now' = now + 1
  /\ uPc' = "saved"
  /\ UNCHANGED <<uLen, uParts, uOut, uIdx, uWork, uFull, uTitle, uKey, uSent, uReq, uDry, uRuns, varsChunk, varsKey,
                 varsPost, varsTrans, varsApi, varsRace, varsBack, varsSwap, varsSample, varsPrompt, varsInter>>

\* the user presses the button again when translate() has finished: the form
\* is as it was, the store is what the first run left
ClientAgain ==
  /\ uPc = "saved"
  /\ uRuns < MaxRuns
  /\ uRuns' = uRuns + 1
  /\ uPc' = "title" /\ uParts' = <<>> /\ uOut' = <<>> /\ uIdx' = 0 /\ uWork' = <<>>
  /\ uFull' = <<>> /\ uTitle' = NoClientTitle /\ uKey' = <<>> /\ uSent' = <<>>
  /\ uDry' = NoDry
  /\ UNCHANGED <<uLen, uReq, varsChunk, varsKey, varsStore, varsPost, varsTrans, varsApi,
                 varsRace, varsBack, varsSwap, varsSample, varsPrompt, varsInter>>

NextClient ==
  \/ \E outcome \in {"ok", "error", "threw"} : ClientTitle(outcome)
  \/ \E ok \in BOOLEAN : ClientKey(ok)
  \/ ClientStart
  \/ \E report \in {<<>>, <<"q">>} : ClientSave(report)
  \/ ClientAgain
  \/ \E w \in 1..ClientConcurrency, withOut \in BOOLEAN : ChunkAnswered(w, withOut)
  \/ \E w \in 1..ClientConcurrency : ChunkRefused(w)

SpecClient == InitClient /\ [][NextClient]_vars

\* the two flows that ask the model for a title
InitTitles == InitTitled \/ InitClient
NextTitles == NextTitled \/ NextClient
SpecTitles == InitTitles /\ [][NextTitles]_vars

\* the two flows that translate chunks concurrently
InitOrder == InitPost \/ InitClient
NextOrder == NextPost \/ NextClient
SpecOrder == InitOrder /\ [][NextOrder]_vars

\* ------------------------------------------------------------ the client QA
\* translate() of app/page.tsx, lines 86-114, with runQa set: the /api/qa
\* requests for an htmlIn and a full of given lengths.

\* the longest htmlIn and full, in slices of approx characters
MaxSections == 6

SampleLengths ==
  {0, 1} \cup {k * Approx : k \in 1..MaxSections} \cup {k * Approx + 1 : k \in 1..(MaxSections - 1)}

\* lines 93-94: how many slices the loop pushes for a string of n characters
SliceCount(n) == (n + Approx - 1) \div Approx
\* the length of arr[i] || '' for the slices of a string of n characters
SliceLen(n, i) == IF i < SliceCount(n) THEN Min(Approx, n - i * Approx) ELSE 0

\* line 95: pick, for an array of n slices
pick(n) == IF n >= 3 THEN <<0, n \div 2, n - 1>> ELSE <<0>>

\* Array.from(new Set(list)): the first occurrence of each value, in order
RECURSIVE Distinct(_)
Distinct(list) ==
  IF list = <<>> THEN <<>>
  ELSE LET front == Distinct(SubSeq(list, 1, Len(list) - 1))
           last == list[Len(list)]
       IN  IF \E i \in 1..Len(front) : front[i] = last THEN front ELSE Append(front, last)

\* line 96
idxs(nIn, nOut) == Distinct(pick(nIn) \o pick(nOut))

InitSample ==
  /\ IdleChunk /\ IdleKey /\ EmptyStore /\ IdlePost /\ IdleClient /\ IdleTrans /\ IdleApi /\ IdleRace /\ IdleBack /\ IdleSwap /\ IdlePrompt /\ IdleInter
  /\ sIn \in SampleLengths \ {0} /\ sFull \in SampleLengths
  /\ sIdxs = <<>> /\ sSent = <<>> /\ spc = "ready"

SampleRest ==
  UNCHANGED <<sIn, sFull, varsChunk, varsKey, varsStore, varsPost, varsClient, varsTrans,
              varsApi, varsRace, varsBack, varsSwap, varsPrompt, varsInter>>

\* lines 87-96: the test of the combined length, the slices and idxs
SampleStart ==
  /\ spc = "ready"
  /\ IF sIn + sFull > 20000
     THEN /\ sIdxs' = idxs(SliceCount(sIn), SliceCount(sFull))
          /\ spc' = "sections"
     ELSE /\ sIdxs' = <<>>
          /\ spc' = "whole"
  /\ UNCHANGED sSent
  /\ SampleRest

\* lines 98-107: one turn of the loop over idxs, the request answered or not
SampleSection(ok) ==
  /\ spc = "sections"
  /\ LET iSec == sIdxs[Len(sSent) + 1]
         sent == Append(sSent, [iSec |-> iSec, src |-> SliceLen(sIn, iSec),
                                tgt |-> SliceLen(sFull, iSec), ok |-> ok])
     IN  /\ sSent' = sent
         /\ spc' = IF Len(sent) = Len(sIdxs) THEN "done" ELSE "sections"
  /\ UNCHANGED sIdxs
  /\ SampleRest

\* lines 110-111: the one request for the whole texts
SampleWhole(ok) ==
  /\ spc = "whole"
  /\ sSent' = <<[iSec |-> -1, src |-> sIn, tgt |-> sFull, ok |-> ok]>>
  /\ spc' = "done"
  /\ UNCHANGED sIdxs
  /\ SampleRest

NextSample ==
  \/ SampleStart
  \/ \E ok \in BOOLEAN : SampleSection(ok)
  \/ \E ok \in BOOLEAN : SampleWhole(ok)

SpecSample == InitSample /\ [][NextSample]_vars

\* ------------------------------------------------------------ the prompt
\* buildSystemPrompt of lib/prompt.ts. A language is a string of pieces: the
\* word english in one of three spellings, its proper prefix "eng", or other
\* text; the fixed text of the template is one piece per passage.

LangPieces == {"english", "English", "ENGLISH", "eng", "x"}
\* the longest language name, in pieces
MaxLang == 2
PromptLangs == StringsUpTo(LangPieces, MaxLang)
\* how many times the function is called on the same arguments
MaxBuilds == 2

\* s.toLowerCase()
toLowerCase(s) ==
  [i \in 1..Len(s) |-> IF s[i] \in {"English", "ENGLISH"} THEN "english" ELSE s[i]]
\* s.startsWith("english")
startsWithEnglish(s) == s # <<>> /\ s[1] = "english"

\* mutant: the metric-only section is added whenever the source is English
buildSystemPrompt_SourceOnly(a) ==
  <<"ROLE", "FROM">> \o a.src \o <<"TO">> \o a.tgt \o <<"PRESERVE", "DOMAIN">>
    \o a.oldDomain \o <<"ARROW">> \o a.newDomain
    \o (IF a.removeConvertBlocks THEN <<"CUR_REMOVE">>
        ELSE <<"CUR_REWRITE">> \o a.curFrom \o <<"ARROW">> \o a.curTo \o <<"LABEL">> \o a.curLabel)
    \o (IF startsWithEnglish(toLowerCase(a.tgt)) THEN <<"ENGLISH_TARGET">> ELSE <<>>)
    \o (IF startsWithEnglish(toLowerCase(a.src)) THEN <<"METRIC_ONLY">> ELSE <<>>)
    \o <<"OUTPUT", "SENTINEL_RULE">>

\* lines 1-29
buildSystemPrompt(a) ==
  <<"ROLE", "FROM">> \o a.src \o <<"TO">> \o a.tgt \o <<"PRESERVE", "DOMAIN">>
    \o a.oldDomain \o <<"ARROW">> \o a.newDomain
    \o (IF a.removeConvertBlocks THEN <<"CUR_REMOVE">>
        ELSE <<"CUR_REWRITE">> \o a.curFrom \o <<"ARROW">> \o a.curTo \o <<"LABEL">> \o a.curLabel)
    \o (IF startsWithEnglish(toLowerCase(a.tgt)) THEN <<"ENGLISH_TARGET">> ELSE <<>>)
    \o (IF startsWithEnglish(toLowerCase(a.src)) /\ ~startsWithEnglish(toLowerCase(a.tgt))
        THEN <<"METRIC_ONLY">> ELSE <<>>)
    \o <<"OUTPUT", "SENTINEL_RULE">>

PromptArgs ==
  [src : PromptLangs, tgt : PromptLangs, oldDomain : {<<>>, <<"o">>}, newDomain : {<<"n">>},
   curFrom : {<<"r">>}, curTo : {<<"u">>}, curLabel : {<<>>, <<"U">>},
   removeConvertBlocks : BOOLEAN]

InitPrompt ==
  /\ IdleChunk /\ IdleKey /\ EmptyStore /\ IdlePost /\ IdleClient /\ IdleTrans /\ IdleApi /\ IdleRace /\ IdleBack /\ IdleSwap /\ IdleSample /\ IdleInter
  /\ mArgs \in PromptArgs /\ mOut = <<>> /\ mpc = "ready"

\* one call of buildSystemPrompt
CallBuildPrompt ==
  /\ mpc \in {"ready", "built"}
  /\ Len(mOut) < MaxBuilds
  /\ mOut' = Append(mOut, buildSystemPrompt(mArgs))
  /\ mpc' = "built"
  /\ UNCHANGED <<mArgs, varsChunk, varsKey, varsStore, varsPost, varsClient, varsTrans,
                 varsApi, varsRace, varsBack, varsSwap, varsSample, varsInter>>

NextPrompt == CallBuildPrompt

SpecPrompt == InitPrompt /\ [][NextPrompt]_vars

\* ------------------------------------------------------------ the translators
\* translateChunk (app/api/translate/route.ts), the POST of the simple chunk
\* route and translateWithSplit (app/api/translate/chunk/route.ts), each for
\* every reply of the model.
\* the longest reply of the model, in tokens
MaxReply == 3
\* how many pieces translateWithSplit may have to split
MaxSplits == 2
\* translateWithSplit(prompt, chunk, 6000)
MaxChars == 6000

\* res.choices[0]?.message?.content ?? '' : any text; a missing content is ''
Replies == StringsUpTo({"x", "SP", "NL", "FENCE", "SENT"}, MaxReply)

\* the replies to the pieces of translateWithSplit
SplitReplies ==
  { <<"x">>, <<"SP", "x", "NL">>, <<"SENT">>, <<"NL", "SENT", "SP">>,
    <<"SENT", "NL", "FENCE">>, <<"FENCE", "NL", "x", "NL", "FENCE">>, <<>> }

\* out.trim() === 'TRUNCATED'
IsTruncated(out) == Trim(out) = <<"SENT">>

Translators == {"translateChunk", "chunkRoute", "translateWithSplit"}
TextLengths == {1, 2, MaxChars, MaxChars + 1}

\* text.slice(from, to) as the stretch of the text it is
Piece(from, to) == [from |-> from, to |-> to]

\* lines 49-50: for (let i = 0; i < text.length; i += maxChars) parts.push(...)
RECURSIVE Slices(_, _, _)
Slices(n, i, maxChars) ==
  IF i < n THEN <<Piece(i, Min(i + maxChars, n))>> \o Slices(n, i + maxChars, maxChars)
  ELSE <<>>

\* mutant: the second half is translated first
Halves_Swapped(piece) ==
  LET mid == (piece.to - piece.from) \div 2
  IN  <<Piece(piece.from + mid, piece.to), Piece(piece.from, piece.from + mid)>>

\* lines 41-44: the two halves of a piece
Halves(piece) ==
  LET mid == (piece.to - piece.from) \div 2
  IN  <<Piece(piece.from, piece.from + mid), Piece(piece.from + mid, piece.to)>>

\* a call of the model: the stretch of the text sent, the reply and whether it
\* was the sentinel
Asked(piece, out) == [piece |-> piece, out |-> out, truncated |-> IsTruncated(out)]

InitTrans ==
  /\ IdleChunk /\ IdleKey /\ EmptyStore /\ IdlePost /\ IdleClient /\ IdleApi /\ IdleRace /\ IdleBack /\ IdleSwap /\ IdleSample /\ IdlePrompt /\ IdleInter
  /\ tFn \in Translators
  /\ tLen \in TextLengths
  /\ tWork = IF tFn = "translateWithSplit"
             THEN (IF tLen <= MaxChars THEN <<Piece(0, tLen)>> ELSE Slices(tLen, 0, MaxChars))
             ELSE <<Piece(0, tLen)>>
  /\ tOuts = <<>> /\ tSplits = 0 /\ tRes = NoResult /\ tAsked = <<>>

\* translateChunk, lines 39-41: the model has replied
TranslateChunkReply(out) ==
  /\ tFn = "translateChunk" /\ tRes = NoResult
  /\ tRes' = IF IsTruncated(out) THEN [status |-> "error", out |-> <<>>]
             ELSE [status |-> "ok", out |-> stripFences(out)]
  /\ tWork' = <<>>
  /\ tOuts' = IF IsTruncated(out) THEN <<>> ELSE <<stripFences(out)>>
  /\ tAsked' = Append(tAsked, Asked(Head(tWork), out))
  /\ UNCHANGED <<tFn, tLen, tSplits, varsChunk, varsKey, varsStore, varsPost, varsClient, varsApi, varsRace, varsBack, varsSwap, varsSample, varsPrompt, varsInter>>

\* the simple chunk route, lines 35-37: 400 'Chunk too large' or { out }
ChunkRouteReply(content) ==
  /\ tFn = "chunkRoute" /\ tRes = NoResult
  /\ tRes' = IF IsTruncated(content) THEN [status |-> "error", out |-> <<>>]
             ELSE [status |-> "ok", out |-> stripFences(content)]
  /\ tWork' = <<>>
  /\ tOuts' = IF IsTruncated(content) THEN <<>> ELSE <<stripFences(content)>>
  /\ tAsked' = Append(tAsked, Asked(Head(tWork), content))
  /\ UNCHANGED <<tFn, tLen, tSplits, varsChunk, varsKey, varsStore, varsPost, varsClient, varsApi, varsRace, varsBack, varsSwap, varsSample, varsPrompt, varsInter>>

\* translateWithSplit, lines 38-46: translateOnce has returned for the leftmost
\* piece not yet done; the piece is split in two, or its translation is kept and
\* the results of the pieces are joined when it was the last
SplitReply(out) ==
  /\ tFn = "translateWithSplit" /\ tRes = NoResult /\ tWork # <<>>
  /\ tAsked' = Append(tAsked, Asked(Head(tWork), out))
  /\ IF IsTruncated(out)
     THEN /\ tSplits < MaxSplits
          /\ tSplits' = tSplits + 1
          /\ tWork' = Halves(Head(tWork)) \o Tail(tWork)
          /\ UNCHANGED <<tOuts, tRes>>
     ELSE /\ tOuts' = Append(tOuts, stripFences(out))
          /\ tWork' = Tail(tWork)
          /\ tRes' = IF Tail(tWork) = <<>>
                     THEN [status |-> "ok", out |-> JoinNL(Append(tOuts, stripFences(out)))]
                     ELSE tRes
          /\ UNCHANGED tSplits
  /\ UNCHANGED <<tFn, tLen, varsChunk, varsKey, varsStore, varsPost, varsClient, varsApi, varsRace, varsBack, varsSwap, varsSample, varsPrompt, varsInter>>

NextTrans ==
  \/ \E out \in Replies : TranslateChunkReply(out)
  \/ \E content \in Replies : ChunkRouteReply(content)
  \/ \E out \in SplitReplies : SplitReply(out)

SpecTrans == InitTrans /\ [][NextTrans]_vars

\* C4: two payloads with equal fields get the same key, in whatever order the
\* fields are listed and whatever useCache, dryRun and the clock are.
KeyDeterminism ==
  (kKeyA # NoKey /\ kKeyB # NoKey /\ DifferOn(kReqA, kReqB) = {}) => kKeyA = kKeyB

\* C4 witness: the second key was computed later, from a payload listed in another
\* order, for a request with another useCache, and the two requests mean the same.
KeyDeterminismWitness ==
  /\ kKeyA # NoKey /\ kKeyB # NoKey
  /\ DifferOn(kReqA, kReqB) = {}
  /\ kOrdB = "reversed"
  /\ kAtB > kAtA
  /\ Truthy(kReqA.useCache) # Truthy(kReqB.useCache)

\* C5 as claimed: changing one semantic field changes the key.
KeySensitivity ==
  (kKeyA # NoKey /\ kKeyB # NoKey /\ Cardinality(DifferOn(kReqA, kReqB)) = 1)
    => kKeyA # kKeyB

\* C5 as amended: changing one semantic field changes the JSON text that computeKey
\* hashes (the key is a 32-bit hash of that text).
CanonSensitivity ==
  (kKeyA # NoKey /\ kKeyB # NoKey /\ Cardinality(DifferOn(kReqA, kReqB)) = 1)
    => CanonicalJson(KeyPayload(kReqA)) # CanonicalJson(Reorder(KeyPayload(kReqB), kOrdB))

\* C5 witness: two requests that differ in the target language only, with keys.
CanonSensitivityWitness ==
  /\ kKeyA # NoKey /\ kKeyB # NoKey
  /\ DifferOn(kReqA, kReqB) = {"tgtLang"}

\* C2: concatenating, in order, the strings returned by splitHtmlByChars and by
\* splitHtmlSmart (its re-split fallback included) reproduces the input exactly.
ChunkRoundTrip == cpc \in {"byChars", "smart"} => Concat(cChunks) = cHtml

\* C2 witness: splitHtmlSmart found a chunk above 1.2 times its budget and
\* re-split it at a line boundary into non-empty pieces.
ChunkRoundTripWitness ==
  /\ cpc = "smart"
  /\ Len(cChunks) >= 2
  /\ \A i \in 1..Len(cChunks) : cChunks[i] # <<>>
  /\ LET safe == SafeBudget(2000, cLimit, cMargin)
         packed == SmartPacked(cHtml, safe)
     IN  \E i \in 1..Len(packed) : Oversized(packed[i], safe)

\* C7: a callWithRetry calls the model at most 6 times; while it runs and when it
\* has returned it has made one call more than it has caught failures, so the
\* first success ends it; it rethrows only the 6th consecutive failure; and each
\* of these counts is the call's own, whatever the other calls of the batch do.
CallWithinBudget(call) ==
  /\ call.calls <= 6
  /\ call.st \in {"flight", "ok"} => call.calls = call.fails + 1 /\ call.fails <= 5
  /\ call.st = "rejected" =>
       IF call.why = "failed" THEN call.calls = 6 /\ call.fails = 6
       ELSE call.calls = call.fails + 1
RetryBudget ==
  /\ \A j \in 1..Len(pTasks) : CallWithinBudget(pTasks[j])
  /\ pQa.st # "none" => CallWithinBudget(pQa)

\* C7 witness: in one batch a call was rejected by its 6th failure while another
\* call, which had failed too, returned.
RetryBudgetWitness ==
  \E j, k \in 1..Len(pTasks) :
    /\ pTasks[j].st = "rejected" /\ pTasks[j].why = "failed" /\ pTasks[j].fails = 6
    /\ pTasks[k].st = "ok" /\ pTasks[k].fails >= 1

\* C1, POST /translate: chunks[i] is the translation of parts[i] at every moment,
\* and the output of a request that translated is the join of all of them.
PostOrder ==
  /\ Len(pChunks) <= Len(pParts)
  /\ \A i \in 1..Len(pChunks) : pChunks[i] = stripFences(Translated(pParts[i]))
  /\ (pc = "done" /\ pResp.status = 200 /\ ~hist.hit) =>
       /\ Len(pChunks) = Len(pParts)
       /\ pResp.htmlOut = stripFences(JoinNL(pChunks))

\* C3: a request answered 200 leaves in the store an item of its own request
\* with the htmlOut, qaReport and key it answered; and when a request with
\* useCache set finds in the store the item of an earlier submission of the same
\* request, it makes no model call and no save, and it answers the stored htmlOut
\* and qaReport with the key of the item.
SameRequest(item, body) ==
  /\ item.htmlIn = body.htmlIn /\ item.srcLang = body.srcLang
  /\ item.tgtLang = body.tgtLang /\ item.oldDom = body.oldDom
  /\ item.newDom = body.newDom /\ item.runQa = body.runQa
CacheHitIdempotent ==
  /\ (pc = "done" /\ pResp.status = 200) =>
       \E i \in 1..Len(memStore) :
         /\ SameRequest(memStore[i], pBody)
         /\ memStore[i].htmlOut = pResp.htmlOut /\ memStore[i].qaReport = pResp.qaReport
         /\ memStore[i].key = pResp.key
  /\ \A i \in 1..Len(hist.storeBefore) :
       LET item == hist.storeBefore[i]
       IN  (pc # "idle" /\ pBody.useCache /\ SameRequest(item, pBody)) =>
             /\ ~hist.called /\ hist.qaCalls = 0 /\ hist.saves = 0
             /\ pc = "done" =>
                  pResp = [NoResp EXCEPT !.status = 200, !.htmlOut = item.htmlOut,
                                         !.qaReport = item.qaReport, !.key = item.key]

\* C3 witness: the second submission of the large document with QA was answered
\* from the store, with a report that lists an issue.
CacheHitIdempotentWitness ==
  /\ pc = "done" /\ hist.hit /\ nReq = 2
  /\ pBody.useCache /\ pBody.runQa /\ pBody.htmlIn = DocOf(MaxParts)
  /\ pResp.htmlOut # <<>> /\ pResp.qaReport \notin {<<>>, NoIssues}
  /\ \E i \in 1..Len(hist.storeBefore) : SameRequest(hist.storeBefore[i], pBody)

\* C8: a request saves at most once, only when every part has been translated and,
\* with runQa, the QA report produced; until it saves the store is as it was when
\* the request arrived, so a request that fails leaves it so.
NoPartialPersistence ==
  /\ hist.saves <= 1
  /\ hist.saves = 1 =>
       /\ pc = "done" /\ pResp.status = 200
       /\ Len(pParts) > 0 /\ hist.savedWith.chunks = Len(pParts)
       /\ pBody.runQa => hist.savedWith.qa
  /\ hist.saves = 0 => memStore = hist.storeBefore /\ memIndex = hist.indexBefore
  /\ (pc = "done" /\ pResp.status # 200) => hist.saves = 0

\* C8 witness: every chunk of the large document was translated, the QA call then
\* failed for good, and the store still holds what an earlier request saved.
NoPartialPersistenceWitness ==
  /\ pc = "done" /\ pResp.status = ErrorStatus
  /\ Len(pParts) = MaxParts /\ Len(pChunks) = Len(pParts)
  /\ pQa.st = "rejected"
  /\ hist.storeBefore # <<>> /\ memStore = hist.storeBefore

\* C9: once the translation of a chunk has failed for good or signalled
\* truncation, the request is answered with an error and a non-2xx status, and it
\* has started no later batch, made no QA call and written nothing to the store.
ChunkFailureAborts ==
  hist.failed =>
    /\ pc = "done"
    /\ pResp.status \notin 200..299 /\ pResp.status # 0 /\ pResp.error # ""
    /\ ~hist.lateBatch /\ pQa.st = "none" /\ hist.qaCalls = 0
    /\ hist.saves = 0 /\ memStore = hist.storeBefore /\ memIndex = hist.indexBefore

\* C9 witness: a chunk of the first batch of the large document ran out of
\* retries; the second batch was never started.
ChunkFailureAbortsWitness ==
  /\ hist.failed /\ pc = "done"
  /\ Len(pParts) > Concurrency /\ pI = 0 /\ pChunks = <<>>
  /\ \E j \in 1..Len(pTasks) : pTasks[j].st = "rejected" /\ pTasks[j].why = "failed"
  /\ pBody.runQa

\* C1, the client flow: every assigned slot of outParts holds what the chunk
\* route answered for its own chunk, and full is the join of all the slots.
ClientOrder ==
  /\ \A i \in 1..Len(uOut) : uOut[i] \in {Hole, <<>>, ChunkOut(uParts[i])}
  /\ uPc = "joined" =>
       /\ \A i \in 1..Len(uOut) : uOut[i] # Hole
       /\ uFull = JoinNL(uOut)

\* C1: with batches of 3 in POST /translate and with 2 workers in the client
\* flow, the i-th piece of the joined output is the translation of the i-th
\* chunk, in whatever order the calls in flight complete.
OrderPreserved == PostOrder /\ ClientOrder

\* C1 witness: the large document was translated and answered, and in a batch a
\* call completed before a call for an earlier chunk.
OrderPreservedWitness ==
  /\ pc = "done" /\ pResp.status = 200 /\ ~hist.hit
  /\ hist.outOfOrder
  /\ Len(pParts) = MaxParts /\ Len(pChunks) = MaxParts

\* the client flow joined its output after the second worker finished its chunk
\* before the first
ClientOrderWitness ==
  /\ uPc = "joined" /\ Len(uParts) = MaxSlices
  /\ \A i \in 1..Len(uOut) : uOut[i] = ChunkOut(uParts[i])
  /\ uWork[2].myIdx < uWork[1].myIdx

\* C6: a translation that completes never has the sentinel TRUNCATED as its
\* text, nor as the text of one of its pieces.
TruncationNeverLeaks ==
  tRes.status = "ok" =>
    /\ tRes.out # <<"SENT">>
    /\ \A i \in 1..Len(tOuts) : tOuts[i] # <<"SENT">>

\* an element of html.split(/(\n)/): a newline, or text without a newline
IsLine(c) == c = <<"NL">> \/ \A i \in 1..Len(c) : c[i] # "NL"

\* one of the segments that the closing block tags cut html into
IsSegment(c, html) == \E k \in 1..Len(BlockParts(html)) : BlockParts(html)[k] = c

\* c is longer than the budget by more than 20%
MoreThanFifthAbove(c, budget) == 5 * StrLen(c) > 6 * budget

\* C11: a chunk of splitHtmlSmart is at most max(2000, floor(limit * margin))
\* long unless it is one block segment or one line; no chunk above 1.2 times
\* that budget is returned unless it is one line, because every packed chunk
\* above it is re-split by splitHtmlByChars; and a chunk of splitHtmlByChars is
\* at most max(1000, floor(limit * margin)) long unless it is one line.
ChunkBound ==
  LET safe == SafeBudget(2000, cLimit, cMargin)
      low == SafeBudget(1000, cLimit, cMargin)
      packed == SmartPacked(cHtml, safe)
  IN  /\ cpc = "smart" =>
           /\ \A i \in 1..Len(cChunks) :
                \/ StrLen(cChunks[i]) <= safe
                \/ IsSegment(cChunks[i], cHtml)
                \/ IsLine(cChunks[i])
           /\ \A i \in 1..Len(cChunks) : MoreThanFifthAbove(cChunks[i], safe) => IsLine(cChunks[i])
           /\ \A k \in 1..Len(packed) :
                MoreThanFifthAbove(packed[k], safe) =>
                  LET pieces == splitHtmlByChars(packed[k], cLimit, cMargin)
                  IN  \A j \in 1..Len(pieces) :
                        StrLen(pieces[j]) <= low \/ IsLine(pieces[j])
      /\ cpc = "byChars" =>
           \A i \in 1..Len(cChunks) : StrLen(cChunks[i]) <= low \/ IsLine(cChunks[i])

\* C11 witness: splitHtmlSmart packed a chunk above 1.2 times the budget that
\* holds several lines, and its re-split left a line longer than the lower
\* budget next to a piece within it.
ChunkBoundWitness ==
  LET safe == SafeBudget(2000, cLimit, cMargin)
      low == SafeBudget(1000, cLimit, cMargin)
      packed == SmartPacked(cHtml, safe)
  IN  /\ cpc = "smart"
      /\ \E k \in 1..Len(packed) : MoreThanFifthAbove(packed[k], safe) /\ ~IsLine(packed[k])
      /\ \E i \in 1..Len(cChunks) : StrLen(cChunks[i]) > low /\ IsLine(cChunks[i])
      /\ \E i \in 1..Len(cChunks) : cChunks[i] # <<>> /\ StrLen(cChunks[i]) <= low

\* a block segment above the budget by at most 20% was returned as it is
KeptSegmentWitness ==
  LET safe == SafeBudget(2000, cLimit, cMargin)
  IN  /\ cpc = "smart"
      /\ \E i \in 1..Len(cChunks) :
           /\ StrLen(cChunks[i]) > safe /\ ~MoreThanFifthAbove(cChunks[i], safe)
           /\ IsSegment(cChunks[i], cHtml) /\ ~IsLine(cChunks[i])

\* C12: at most 3 model calls of a request are outstanding at any moment, and a
\* batch is started only when every translation of the batch before it has
\* completed, so that the chunks of all earlier parts are there.
BoundedFanOut ==
  /\ Cardinality(InFlight) + (IF pQa.st = "flight" THEN 1 ELSE 0) <= 3
  /\ ~hist.earlyBatch
  /\ pc = "batch" =>
       /\ Len(pChunks) = pI
       /\ Len(pTasks) = Min(3, Len(pParts) - pI)
       /\ pQa.st = "none"

\* C12 witness: the second batch of the large document is in flight, after the
\* three translations of the first batch, which completed out of order.
BoundedFanOutWitness ==
  /\ pc = "batch" /\ pI = 3 /\ Len(pParts) > 3
  /\ InFlight # {} /\ Len(pChunks) = 3
  /\ hist.outOfOrder

\* C13: sampled QA makes at most 3 comparisons, on the first, middle and last
\* sections of the coarser chunking, and none of them is given the whole source
\* document.
QaSamplingSections ==
  (pc \in {"qa", "done"} /\ pQa.sampled) =>
    LET pre == preProcessed(pBody)
        qParts == splitHtmlSmart(pre, TOKEN_LIMIT, QaMargin)
    IN  /\ hist.qaCalls <= 3 /\ Len(pQa.secs) <= 3
        /\ \A k \in 1..Len(pQa.secs) :
             /\ pQa.secs[k].idx \in {0, Len(qParts) \div 2, Len(qParts) - 1}
             /\ pQa.secs[k].src # pre

\* C14: with runQa set, QA is sampled exactly when the source handed to QA and
\* the output are together strictly longer than 20000 characters, and otherwise
\* makes exactly one comparison, of the full source with the full output; with
\* runQa unset no QA call is made and the report is the empty string.
QaModeSelection ==
  ((pc = "qa" \/ (pc = "done" /\ pResp.status = 200)) /\ ~hist.hit) =>
    LET pre == preProcessed(pBody)
    IN  IF pBody.runQa
        THEN /\ pQa.sampled <=> (StrLen(pre) + StrLen(pFull) > 20000)
             /\ hist.qaCalls >= 1
             /\ ~pQa.sampled =>
                  /\ hist.qaCalls = 1
                  /\ pQa.secs = <<[src |-> pre, tgt |-> pFull, idx |-> 0]>>
        ELSE /\ hist.qaCalls = 0 /\ pQa = NoQa
             /\ pc = "done" /\ pResp.qaReport = <<>>

QaModeSelectionWitness ==
  /\ pc = "done" /\ pResp.status = 200 /\ ~hist.hit /\ pBody.runQa
  /\ ~pQa.sampled /\ hist.qaCalls = 1 /\ pResp.qaReport = <<"q">>
  /\ StrLen(pFull) > 0

\* C19: when every chunk is translated and the QA call then fails after its
\* retries, the request still answers the translated output and stores it.
QaAdvisory ==
  (pc = "done" /\ pQa.st = "rejected" /\ Len(pChunks) = Len(pParts)) =>
    /\ pResp.status = 200 /\ pResp.htmlOut = pFull
    /\ memGet(memStore, pKey) # NoItem /\ memGet(memStore, pKey).htmlOut = pFull

\* C15: a request that lacks a required field of its route is answered with
\* status 400, and its handler has called no model and has neither read nor
\* written the store.
ValidationNoEffects ==
  /\ (pc = "done" /\ (pBody.htmlIn = <<>> \/ pBody.srcLang = <<>> \/ pBody.tgtLang = <<>>)) =>
       /\ pResp.status = 400
       /\ ~hist.called /\ hist.qaCalls = 0 /\ ~hist.looked /\ hist.saves = 0
       /\ memStore = hist.storeBefore /\ memIndex = hist.indexBefore
  /\ LET r == aReq
         lacking ==
           \/ r.route = "chunk" /\ (r.text = <<>> \/ r.srcLang = <<>> \/ r.tgtLang = <<>>)
           \/ r.route = "qa" /\ (r.text = <<>> \/ r.tgt = <<>>)
           \/ r.route = "title" /\ (r.text = <<>> \/ r.tgtLang = <<>>)
           \/ r.route = "save" /\ (r.key = <<>> \/ r.srcLang = <<>> \/ r.tgtLang = <<>>
                                     \/ r.text = <<>>)
           \/ r.route \in {"item", "delete"} /\ r.key = <<>>
     IN  lacking =>
           /\ aPc = "done" /\ aResp.status = 400
           /\ aLog.calls = 0 /\ aLog.reads = 0 /\ aLog.writes = 0
           /\ memStore = aLog.store /\ memIndex = aLog.index

\* C15 witness: a /save request without its key is turned away while the store
\* holds an item.
ValidationNoEffectsWitness ==
  /\ aPc = "done" /\ aReq.route = "save" /\ aReq.key = <<>> /\ aReq.text # <<>>
  /\ aReq.srcLang # <<>> /\ aReq.tgtLang # <<>>
  /\ aResp.status = 400 /\ memStore # <<>> /\ memStore = aLog.store

\* C16: GET /item for a key that is not stored answers 404 and leaves the
\* store and the index as they were; for a stored key it answers the stored
\* htmlOut and qaReport.
ItemLookup ==
  (aPc = "done" /\ aReq.route = "item" /\ aReq.key # <<>>) =>
    LET at == {i \in 1..Len(memStore) : memStore[i].key = aReq.key}
    IN  /\ memStore = aLog.store /\ memIndex = aLog.index /\ aLog.writes = 0
        /\ at = {} => aResp.status = 404
        /\ \A i \in at : /\ aResp.status = 200
                          /\ aResp.out = memStore[i].htmlOut
                          /\ aResp.qaReport = memStore[i].qaReport

\* C16 witness: a key is asked for that is not stored, while another key is.
ItemLookupWitness ==
  /\ aPc = "done" /\ aReq.route = "item" /\ aReq.key = <<"m">> /\ aResp.status = 404
  /\ memStore # <<>> /\ \A i \in 1..Len(memStore) : memStore[i].key = <<"k">>

\* the limits listRecent is asked with
ListLimits == {1, 2, HistoryLimit}

\* a listing of at most limit summaries, newest first, of stored keys, no key twice
IsRecentList(list, limit) ==
  /\ Len(list) <= limit
  /\ \A i, j \in 1..Len(list) : i < j =>
        /\ list[i].createdAt >= list[j].createdAt
        /\ list[i].key # list[j].key
  /\ \A i \in 1..Len(list) :
        \E k \in 1..Len(memStore) :
          /\ memStore[k].key = list[i].key
          /\ memStore[k].createdAt = list[i].createdAt

\* C20: after any sequence of saves and removals, listRecent(limit) returns at
\* most limit summaries (50 for GET /history), newest first by createdAt, each
\* for a key that is stored, and no key twice.
HistoryListing ==
  /\ \A limit \in ListLimits : IsRecentList(memList(memStore, memIndex, limit), limit)
  /\ (aPc = "done" /\ aReq.route = "history") =>
       /\ aResp.status = 200 /\ IsRecentList(aResp.items, 50)
       /\ Len(aResp.items) = Len(memStore)

\* C20 witness: GET /history lists two items, the one saved last (with the later
\* createdAt) first.
HistoryListingWitness ==
  /\ aPc = "done" /\ aReq.route = "history" /\ Len(aResp.items) = 2
  /\ aResp.items[1].key = memIndex[2].key /\ aResp.items[2].key = memIndex[1].key
  /\ aResp.items[1].createdAt > aResp.items[2].createdAt
  /\ Len(memList(memStore, memIndex, 1)) = 1

\* the request made no translation, QA or title call and wrote nothing
NoWorkDone ==
  /\ ~hist.called /\ hist.qaCalls = 0 /\ pTitle = NoTitle /\ hist.saves = 0
  /\ memStore = hist.storeBefore /\ memIndex = hist.indexBefore

\* C17: a request with dryRun set is answered with the computed key and nothing
\* else, and makes no translation, QA or title call and no write to the store,
\* whatever useCache and the store are.
DryRunOnlyKey ==
  (pc = "done" /\ pBody.htmlIn # <<>> /\ pBody.dryRun) =>
    /\ pResp = [NoResp EXCEPT !.status = 200, !.key = KeyOf(pBody)]
    /\ NoWorkDone

\* the store holds an item under key with this title and this output
StoredAs(key, title, out) ==
  \E k \in 1..Len(memStore) :
    /\ memStore[k].key = key /\ memStore[k].title = title /\ memStore[k].htmlOut = out

\* C18: when the title call has failed after its retries the pipeline goes on:
\* POST /translate still answers the translation and saves it with the target
\* language as its title, the client flow goes on with the empty title and saves
\* with it; the title failure gives no error response.
TitleBestEffort ==
  /\ pTitle.st \in {"caught", "rejected"} =>
       /\ pTitle.st = "caught" /\ pTitle.fails = 6 /\ pTitle.out = pBody.tgtLang
       /\ pc \in {"qa", "done"}
       /\ (pc = "done" /\ pQa.st # "rejected") =>
            /\ pResp.status = 200 /\ pResp.htmlOut = pFull /\ pResp.error = ""
            /\ StoredAs(pKey, pBody.tgtLang, pFull)
  /\ uTitle.st \in {"error", "threw"} =>
       /\ uTitle.out = <<>> /\ uPc # "title"
       /\ uPc = "saved" => StoredAs(uKey, <<>>, uFull)

\* C18 witness: suggestTitle failed six times and the request was answered and
\* saved all the same.
TitleBestEffortWitness ==
  /\ pTitle.st = "caught" /\ pTitle.fails = 6 /\ pc = "done" /\ pResp.status = 200
  /\ pFull # <<>> /\ StoredAs(pKey, <<101>>, pFull)

\* the same in the client flow: the title request failed, the translation of
\* every slice was saved under the empty title
ClientTitleWitness ==
  /\ uTitle.st = "error" /\ uPc = "saved" /\ Len(uParts) = MaxSlices
  /\ StoredAs(uKey, <<>>, uFull) /\ uFull # <<>>

\* C21: after DELETE /item for key k the key is neither stored nor listed, every
\* other item and index entry is as it was, and the answer is ok whether or not
\* k was stored.
DeleteByKey ==
  (aPc = "done" /\ aReq.route = "delete" /\ aReq.key # <<>>) =>
    LET k == aReq.key
        listed == memList(memStore, memIndex, HistoryLimit)
    IN  /\ aResp.status = 200 /\ aResp.error = ""
        /\ \A i \in 1..Len(memStore) : memStore[i].key # k
        /\ \A i \in 1..Len(memIndex) : memIndex[i].key # k
        /\ \A i \in 1..Len(listed) : listed[i].key # k
        /\ memStore = SelectSeq(aLog.store, LAMBDA it : it.key # k)
        /\ memIndex = SelectSeq(aLog.index, LAMBDA e : e.key # k)

\* C21 witness: of two stored keys one was deleted and the other is still
\* stored and listed.
DeleteByKeyWitness ==
  /\ aPc = "done" /\ aReq.route = "delete" /\ aReq.key = <<"k">>
  /\ Len(aLog.store) = 2 /\ Len(memStore) = 1 /\ memStore[1].key = <<"m">>
  /\ Len(memIndex) = 1 /\ memIndex[1].key = <<"m">>

\* where the store holds the key of the two requests
RaceItems == {k \in 1..Len(memStore) : memStore[k].key = KeyOf(rBody)}
RaceEntries == {k \in 1..Len(memIndex) : memIndex[k].key = KeyOf(rBody)}

\* C22: once two requests with the same body have both finished, the store
\* holds at most one item under their key and as many index entries, and if
\* either has saved, exactly one, which is what the later save wrote.
LastWriterWins ==
  (\A h \in 1..2 : rH[h].pc = "done") =>
    /\ Cardinality(RaceItems) <= 1 /\ Cardinality(RaceEntries) = Cardinality(RaceItems)
    /\ Len(memStore) = Cardinality(RaceItems) /\ Len(memIndex) = Cardinality(RaceEntries)
    /\ (\E h \in 1..2 : rH[h].hist.saves > 0) =>
         /\ rLast.by \in 1..2 /\ RaceItems # {}
         /\ \A k \in RaceItems :
              /\ memStore[k].createdAt = rLast.at
              /\ memStore[k].htmlOut = rH[rLast.by].full
              /\ memStore[k].qaReport = rH[rLast.by].resp.qaReport
         /\ \A k \in RaceEntries : memIndex[k].score = rLast.at

\* C22 witness: both requests missed the cache, both translated and both saved;
\* the first to save was the second to arrive, and its QA report differs.
LastWriterWinsWitness ==
  /\ \A h \in 1..2 : /\ rH[h].pc = "done" /\ rH[h].hist.looked /\ ~rH[h].hist.hit
                      /\ rH[h].hist.called /\ rH[h].hist.saves = 1
  /\ rLast.by = 1 /\ rH[1].resp.qaReport # rH[2].resp.qaReport
  /\ Cardinality(RaceItems) = 1

\* a response is 200 with the output, the report and the key, or an error with
\* another status
IsAnswer(resp) ==
  \/ resp.status = 200 /\ resp.error = "" /\ resp.key = pKey
  \/ resp.status \in {400, 500} /\ resp.error # "" /\ resp.htmlOut = <<>> /\ resp.key = <<>>

\* a request is being handled
Handling == pc \in {"lookup", "batch", "qa"}

\* C23: when every call settles, every request is answered, exactly once, with
\* 200 and the result or with an error and another status.
EveryRequestAnswered ==
  /\ [](hist.answers <= 1 /\ (Handling => hist.answers = 0)
        /\ (pc = "done" => hist.answers = 1 /\ IsAnswer(pResp)))
  /\ [](Handling => <>(pc = "done"))

\* C23 witness: the second request has lost a chunk of its first batch and has
\* been answered with an error while other calls of that batch are still running.
EveryRequestAnsweredWitness ==
  /\ pc = "done" /\ pResp.status = 500 /\ hist.answers = 1 /\ nReq = 2
  /\ Len(pParts) = MaxParts /\ InFlight # {}

\* C24: after every sequence of save, getByKey, listRecent and removeByKey
\* calls, the in-memory fallback and the KV backend have returned the same: the
\* same presence, output and report for a key, the same keys listed in the same
\* order.
BackendIndifference == bSeen.mem = bSeen.kv

\* what the two backends do agree on: the presence, the output and the report
\* of every key, and how many keys are listed
BackendsAgreeOnItems ==
  /\ bSeen.op = "get" => bSeen.mem = bSeen.kv
  /\ bSeen.op = "list" => Len(bSeen.mem) = Len(bSeen.kv)
  /\ \A key \in ApiKeys : Seen(memGet(bMem.store, key)) = Seen(kvGet(bKv, key))

\* the length of a stretch of the text
Size(piece) == piece.to - piece.from

\* C25: translateWithSplit ends after finitely many model calls whatever the
\* model answers: a piece answered with the sentinel is replaced by two pieces
\* that are both shorter, down to a minimum size.
HalvingTerminates ==
  [][(tFn = "translateWithSplit" /\ tSplits' > tSplits)
       => /\ Size(Head(tWork)) > 1
          /\ \A i \in 1..2 : Size(tWork'[i]) < Size(Head(tWork))]_vars

\* the calls whose replies translateWithSplit uses
Used == SelectSeq(tAsked, LAMBDA call : ~call.truncated)

\* the stretches tile the text from `from` to `to`, left to right
Tiles(pieces, from, to) ==
  /\ pieces # <<>>
  /\ pieces[1].from = from /\ pieces[Len(pieces)].to = to
  /\ \A i \in 1..Len(pieces) - 1 : pieces[i].to = pieces[i + 1].from

\* C26: translateWithSplit cuts a text longer than maxChars into consecutive
\* slices of maxChars and a piece answered with the sentinel at its midpoint;
\* the pieces whose translations are used tile the text left to right and the
\* result is their translations, fences stripped, joined by newlines in order.
HalvingPartitions ==
  tFn = "translateWithSplit" =>
    /\ \A i \in 1..Len(tAsked) :
          /\ Size(tAsked[i].piece) <= MaxChars
          /\ (i = 1 => tAsked[i].piece = Piece(0, IF tLen < MaxChars THEN tLen ELSE MaxChars))
          /\ (tAsked[i].truncated /\ i < Len(tAsked)) =>
               LET p == tAsked[i].piece
               IN  tAsked[i + 1].piece = Piece(p.from, p.from + (Size(p) \div 2))
    /\ tRes.status = "ok" =>
          /\ Tiles([i \in 1..Len(Used) |-> Used[i].piece], 0, tLen)
          /\ tRes.out = JoinNL([i \in 1..Len(Used) |-> stripFences(Used[i].out)])
    /\ tRes.status # "ok" =>
          Tiles([i \in 1..Len(Used) |-> Used[i].piece] \o tWork, 0, tLen)

\* C26 witness: a text of maxChars + 1 characters, cut into two slices, the
\* first of which was answered with the sentinel and halved; four replies used.
HalvingPartitionsWitness ==
  /\ tFn = "translateWithSplit" /\ tLen = MaxChars + 1 /\ tRes.status = "ok"
  /\ tAsked[1].truncated /\ Len(Used) >= 3
  /\ \E i \in 1..Len(Used) : Used[i].piece = Piece(MaxChars \div 2, MaxChars)

\* C27: an input answered with the sentinel is never sent to the model again:
\* translateChunk and the simple chunk route end with an error after that one
\* call, translateWithSplit goes on with pieces that are strictly smaller.
TruncationNotRetried ==
  /\ \A i \in 1..Len(tAsked) : \A j \in 1..Len(tAsked) :
        (i < j /\ tAsked[i].truncated) => tAsked[j].piece # tAsked[i].piece
  /\ (tFn \in {"translateChunk", "chunkRoute"} /\ tAsked # <<>>)
        => /\ Len(tAsked) = 1
           /\ tAsked[1].truncated <=> tRes.status = "error"

\* C27 without the texts of one character or none: translateChunk and the
\* simple chunk route as above; in translateWithSplit the pieces cut from a
\* piece of two characters or more that was answered with the sentinel are
\* strictly smaller than it and none of them is sent before it was cut.
TruncationNotRetriedAbove1 ==
  /\ \A i \in 1..Len(tAsked) : \A j \in 1..Len(tAsked) :
        (i < j /\ tAsked[i].truncated /\ Size(tAsked[i].piece) > 1)
          => tAsked[j].piece # tAsked[i].piece
  /\ (tFn \in {"translateChunk", "chunkRoute"} /\ tAsked # <<>>)
        => /\ Len(tAsked) = 1
           /\ tAsked[1].truncated <=> tRes.status = "error"

\* t.indexOf("\n"), counted from 1; 0 when there is none
FirstNewline(t) ==
  LET nl == {i \in 1..Len(t) : t[i] = "NL"}
  IN  IF nl = {} THEN 0 ELSE CHOOSE i \in nl : \A j \in nl : i <= j

\* the trimmed reply starts with a fence / ends with one
FenceAhead(t) == t # <<>> /\ Head(t) = "FENCE"
FenceBehind(t) == t # <<>> /\ t[Len(t)] = "FENCE"

\* the trimmed reply is wrapped: a delimiter line first, another one last
Wrapped(t) == FenceAhead(t) /\ FenceBehind(t) /\ FirstNewline(t) < LastNewline(t)

\* the lines between the first and the last line
Between(t) == SubSeq(t, FirstNewline(t) + 1, LastNewline(t) - 1)

\* C28: of a reply wrapped in a fenced block stripFences returns the lines
\* between the first and the last delimiter line, trimmed; of a reply without a
\* fence ahead or behind, the trimmed reply; fences inside are kept.
FenceStripping ==
  \A i \in 1..Len(tOuts) :
     LET t == Trim(Used[i].out)
     IN  /\ Wrapped(t) => tOuts[i] = Trim(Between(t))
         /\ (~FenceAhead(t) /\ ~FenceBehind(t)) => tOuts[i] = t

\* what stripFences does do: a reply with no fence ahead keeps all but a last
\* delimiter line; a reply with a fence ahead comes out empty
FenceStrippingAsCoded ==
  \A i \in 1..Len(tOuts) :
     LET t == Trim(Used[i].out)
     IN  /\ FenceAhead(t) => tOuts[i] = <<>>
         /\ (~FenceAhead(t) /\ ~FenceBehind(t)) => tOuts[i] = t
         /\ (~FenceAhead(t) /\ FenceBehind(t) /\ LastNewline(t) # 0)
               => tOuts[i] = Trim(SubSeq(t, 1, LastNewline(t) - 1))

\* html holds no closing tag of a block-level element
NoBoundary(html) == \A i \in 1..Len(html) : html[i] # "CT"

\* C29: for an html without a closing block tag splitHtmlSmart returns exactly
\* the chunks that splitHtmlByChars returns for it.
NoBoundaryFallback ==
  (cpc = "smart" /\ NoBoundary(cHtml)) => cChunks = splitHtmlByChars(cHtml, cLimit, cMargin)

\* what splitHtmlSmart does return for an html without a closing block tag:
\* nothing for the empty string, the html as one chunk when it is at most 1.2
\* times the budget long, the chunks of splitHtmlByChars when it is longer
NoBoundaryAsCoded ==
  (cpc = "smart" /\ NoBoundary(cHtml)) =>
     cChunks = IF cHtml = <<>> THEN <<>>
               ELSE IF MoreThanFifthAbove(cHtml, SafeBudget(2000, cLimit, cMargin))
                    THEN splitHtmlByChars(cHtml, cLimit, cMargin)
                    ELSE <<cHtml>>

\* old occurs in html at position i
OccursAt(html, old, i) ==
  i + Len(old) - 1 <= Len(html) /\ SubSeq(html, i, i + Len(old) - 1) = old

\* html from position i on with every occurrence of old replaced by new, the
\* occurrences taken left to right, none overlapping the one before
RECURSIVE SwappedFrom(_, _, _, _)
SwappedFrom(html, i, old, new) ==
  IF i > Len(html) THEN <<>>
  ELSE IF OccursAt(html, old, i) THEN new \o SwappedFrom(html, i + Len(old), old, new)
  ELSE <<html[i]>> \o SwappedFrom(html, i + 1, old, new)

\* what the claim says deterministicDomainSwap returns
Swapped(html, old, new) ==
  IF old = <<>> \/ new = <<>> \/ old = new THEN html ELSE SwappedFrom(html, 1, old, new)

\* C30: deterministicDomainSwap returns the html unchanged when a domain is
\* empty or the two are equal, and otherwise the html with every occurrence of
\* oldDomain replaced by newDomain, left to right without overlap; the chunks
\* POST /translate makes and sends to the model concatenate to that swapped
\* html.
SwapBeforeChunking ==
  /\ wpc = "swapped" => wOut = Swapped(wHtml, wOld, wNew)
  /\ hist.called =>
        /\ Concat(pParts) = Swapped(pBody.htmlIn, pBody.oldDom, pBody.newDom)
        /\ \A j \in 1..Len(pTasks) :
              pTasks[j].st = "ok" => pTasks[j].out = stripFences(Translated(pParts[pI + j]))

\* C30 witness, the function: the second of three overlapping occurrences is
\* left as it is.
SwapBeforeChunkingWitness ==
  /\ wpc = "swapped" /\ wHtml = <<"o", "o", "o">> /\ wOld = <<"o", "o">> /\ wNew = <<"n">>
  /\ wOut = <<"n", "o">>

\* C30 witness, the handler: a document of several chunks, each starting with
\* the old domain, was chunked after the swap and a chunk with the new domain
\* was translated.
SwapInPostWitness ==
  /\ hist.called /\ Len(pParts) = MaxParts /\ Concat(pParts) # pBody.htmlIn
  /\ \E j \in 1..Len(pTasks) : pTasks[j].st = "ok" /\ Head(pTasks[j].out) = "n"

\* the chunk requests that have not been answered yet
ChunksInFlight == {w \in 1..Len(uWork) : uWork[w].st = "fetch"}

\* C31: with two workers on one counter no chunk index is sent twice and at
\* most two chunk requests are in flight; when all workers have finished
\* without an error every index was sent once, by one worker, and every slot
\* of outParts holds what was answered for its own chunk.
WorkerPool ==
  /\ \A a \in 1..Len(uSent) : \A b \in 1..Len(uSent) : uSent[a].idx = uSent[b].idx => a = b
  /\ \A a \in 1..Len(uSent) : uSent[a].idx < Len(uParts)
  /\ Cardinality(ChunksInFlight) <= 2
  /\ uPc \in {"joined", "saved"} =>
        /\ {uSent[a].idx : a \in 1..Len(uSent)} = 0..(Len(uParts) - 1)
        /\ \A i \in 1..Len(uParts) : uOut[i] \in {<<"t" \o uParts[i][1]>>, <<>>}
        /\ uFull = JoinNL(uOut)

\* C31 witness: four chunks, all answered, three of them by the first worker.
WorkerPoolWitness ==
  /\ uPc = "joined" /\ Len(uParts) = MaxSlices /\ Len(uSent) = MaxSlices
  /\ Cardinality({a \in 1..Len(uSent) : uSent[a].w = 1}) = 3
  /\ \A i \in 1..Len(uParts) : uOut[i] # <<>>

\* C35: once POST /translate has answered, or translate() of the client has
\* failed, no model call and no chunk request of that request is started.
NoWorkLeftBehind ==
  /\ ~hist.lateCall
  /\ \A a \in 1..Len(uSent) : ~uSent[a].late

\* the handler's half of C35 alone, and what does hold of it: no batch is
\* started after the answer
NoLateModelCall == ~hist.lateCall
NoLateBatch == ~hist.lateBatch

\* the client's half of C35 alone
NoLateChunkRequest == \A a \in 1..Len(uSent) : ~uSent[a].late

\* the dry run was answered from the cache
DryRunHit == uDry.hit

\* C32: in the client flow, when useCache is set and an item is stored for the
\* request's key, the flow returns the stored output and report and sends no
\* /translate/chunk request.
ClientCacheHit == DryRunHit => uSent = <<>> /\ uPc \notin {"start", "pool", "joined"}

\* C32, as coded: the hit is answered by the handler with the stored output,
\* and the page reads the key of the answer and nothing else
ClientCacheHitAsCoded ==
  DryRunHit => /\ uReq.useCache /\ uDry.key = uKey /\ uRuns > 1
               /\ uPc \in {"start", "pool", "joined", "failed", "saved"}

\* the key computeKey gives for the fields an item of the page holds
OwnClientKey(item, n) == ClientKeyTable[n, item.runQa]
\* the key computeKey gives for the fields an item of POST /translate holds
OwnPostKey(item) ==
  KeyTable[[htmlIn |-> item.htmlIn, srcLang |-> item.srcLang, tgtLang |-> item.tgtLang,
            oldDom |-> item.oldDom, newDom |-> item.newDom, runQa |-> item.runQa,
            useCache |-> FALSE]]

\* C36: every stored item's key is computeKey of the item's own request
\* fields and the model identifiers, whether POST /translate or the page with
\* its dry-run key has stored it.
KeyedByOwnRequest ==
  \A i \in 1..Len(memStore) :
    memStore[i].key = (IF uPc = "off" THEN OwnPostKey(memStore[i])
                       ELSE OwnClientKey(memStore[i], uLen))

\* C36, for POST /translate alone
PostKeyedByOwnRequest ==
  uPc = "off" => \A i \in 1..Len(memStore) : memStore[i].key = OwnPostKey(memStore[i])

\* C36, for the page when runQa is off
ClientKeyedWithoutQa ==
  (uPc # "off" /\ ~uReq.runQa) =>
     \A i \in 1..Len(memStore) : memStore[i].key = OwnClientKey(memStore[i], uLen)

\* C33: with runQa set and htmlIn and the output together longer than 20000
\* characters, the page sends at most 3 /qa comparisons, for every pair of
\* lengths.
ClientQaAtMostThree == (sIn + sFull > 20000) => Len(sSent) <= 3

\* C33, as coded: at most 5 comparisons, of which the first is section 0, each
\* section at most once, and never the whole document
ClientQaAsCoded ==
  (sIn + sFull > 20000) =>
     /\ Len(sSent) <= 5
     /\ \A a, b \in 1..Len(sSent) : sSent[a].iSec = sSent[b].iSec => a = b
     /\ \A a \in 1..Len(sSent) : sSent[a].iSec >= 0 /\ sSent[a].src <= Approx /\ sSent[a].tgt <= Approx
     /\ sSent # <<>> => sSent[1].iSec = 0

\* how many times a passage occurs in a prompt
Passages(prompt, passage) == Cardinality({i \in 1..Len(prompt) : prompt[i] = passage})
\* the language name begins with the word english, in any case
BeginsEnglish(lang) == lang # <<>> /\ lang[1] \in {"english", "English", "ENGLISH"}

\* C34: buildSystemPrompt gives the same prompt for the same eight arguments;
\* the prompt has exactly one currency section, the removal section iff
\* removeConvertBlocks and else the rewrite section; the English dual-unit
\* section iff the target begins with english in any case; the metric-only
\* section iff the source begins with english and the target does not; and
\* always the instruction to answer with the truncation sentinel.
PromptSections ==
  \A c \in 1..Len(mOut) :
    LET prompt == mOut[c]
    IN  /\ prompt = mOut[1]
        /\ Passages(prompt, "CUR_REMOVE") + Passages(prompt, "CUR_REWRITE") = 1
        /\ Passages(prompt, "CUR_REMOVE") = 1 <=> mArgs.removeConvertBlocks
        /\ Passages(prompt, "ENGLISH_TARGET") = (IF BeginsEnglish(mArgs.tgt) THEN 1 ELSE 0)
        /\ Passages(prompt, "METRIC_ONLY") =
             (IF BeginsEnglish(mArgs.src) /\ ~BeginsEnglish(mArgs.tgt) THEN 1 ELSE 0)
        /\ Passages(prompt, "ENGLISH_TARGET") + Passages(prompt, "METRIC_ONLY") <= 1
        /\ Passages(prompt, "SENTINEL_RULE") = 1
        /\ prompt[Len(prompt)] = "SENTINEL_RULE"

\* an English source with another target, called twice
PromptSectionsWitness ==
  /\ Len(mOut) = MaxBuilds /\ mArgs.src = <<"ENGLISH", "x">> /\ mArgs.tgt = <<"eng">>
  /\ ~mArgs.removeConvertBlocks
  /\ Passages(mOut[1], "METRIC_ONLY") = 1

\* the entries of the in-memory index for a key
EntriesFor(index, key) == {i \in 1..Len(index) : index[i].key = key}

\* C37: after any sequence of save and removeByKey calls on the in-memory
\* fallback the keys of the item map are the keys of the recency index, the
\* index has one entry per key at most, and its score is the createdAt of the
\* item last saved under the key.
MemStoreIndexAgree ==
  /\ {bMem.store[i].key : i \in 1..Len(bMem.store)} = {bMem.index[i].key : i \in 1..Len(bMem.index)}
  /\ \A i \in 1..Len(bMem.index) : Cardinality(EntriesFor(bMem.index, bMem.index[i].key)) = 1
  /\ \A i \in 1..Len(bMem.index), j \in 1..Len(bMem.store) :
       bMem.index[i].key = bMem.store[j].key => bMem.index[i].score = bMem.store[j].createdAt
  /\ bSeen.op = "save" =>
       \E i \in 1..Len(bMem.index), j \in 1..Len(bMem.store) :
         /\ bMem.index[i] = [key |-> bSeen.arg.key, score |-> bSeen.arg.createdAt]
         /\ bMem.store[j] = bSeen.arg
  /\ bSeen.op = "remove" =>
       /\ EntriesFor(bMem.index, bSeen.arg) = {}
       /\ \A j \in 1..Len(bMem.store) : bMem.store[j].key # bSeen.arg

\* a key saved again with a later createdAt while another key is stored, the
\* entry of the first now behind the other
MemStoreIndexAgreeWitness ==
  /\ bSeen.op = "save" /\ bN >= 3
  /\ Len(bMem.store) = 2 /\ Len(bMem.index) = 2
  /\ bMem.store[1] = bSeen.arg /\ bMem.index[2].key = bSeen.arg.key
  /\ bMem.index[2].score = MaxStamp

\* save and removeByKey have both returned
BothDone == iSave = "done" /\ iRem = "done"
ItemExists(kv, key) == kvHgetall(kv.hashes, key) # NoItem
InIndex(kv, key) == \E e \in kv.zset : e.member = key

\* C38: with the KV backend, after any interleaving of a concurrent save(k) and
\* removeByKey(k) has completed, the item for k exists if and only if k is in
\* the recency index.
KvItemIffIndexed ==
  (BothDone /\ iItem.key = iKey) => (ItemExists(iKv, iKey) <=> InIndex(iKv, iKey))

\* C38, as coded: listRecent lists the keys that are in the index and have
\* their item, and no other
KvListedAreStored ==
  BothDone =>
    \A k \in ApiKeys :
      (\E i \in 1..Len(kvListKeys(iKv, HistoryLimit)) : kvListKeys(iKv, HistoryLimit)[i] = k)
         <=> (ItemExists(iKv, k) /\ InIndex(iKv, k))

\* C38, for calls on different keys
KvOtherKeyAgrees ==
  (BothDone /\ iItem.key # iKey) =>
     \A k \in ApiKeys : ItemExists(iKv, k) <=> InIndex(iKv, k)

\* C39: a POST /translate answered from the cache has not called save: the
\* stored items with their createdAt and the history index, in its order, are
\* as they were when the request arrived.
CacheHitNoWrite ==
  hist.hit =>
    /\ hist.saves = 0
    /\ memStore = hist.storeBefore
    /\ memIndex = hist.indexBefore
    /\ \E i \in 1..Len(memStore) :
         /\ memStore[i].key = pResp.key /\ memStore[i].htmlOut = pResp.htmlOut
         /\ memStore[i].createdAt < now

\* the second request for the large document was answered from the cache, the
\* clock having moved on since the item was saved
CacheHitNoWriteWitness ==
  /\ pc = "done" /\ hist.hit /\ nReq = 2 /\ pResp.status = 200
  /\ pBody.htmlIn = DocOf(MaxParts) /\ memStore # <<>> /\ memIndex # <<>>
  /\ memIndex[1].score < now

\* C10: for a non-empty input, no string returned by splitHtmlByChars or by
\* splitHtmlSmart is empty.
NonEmptyChunks ==
  (cpc \in {"byChars", "smart"} /\ cHtml # <<>>)
    => \A i \in 1..Len(cChunks) : cChunks[i] # <<>>

====
